---- MODULE Spec2Model ----
(***************************************************************************)
(* Cognito authentication for Nakama: the token-verification pipeline      *)
(* (runtime/auth.go and cognito_module/jwt.go), the JWKS key cache, the    *)
(* wallet provisioner and the RPC handlers, as state machines.             *)
(*                                                                         *)
(* Two implementations live in the repository and both are modelled:      *)
(*   "runtime"         runtime/main.go, runtime/auth.go (keyfunc library)  *)
(*   "cognito_module"  cognito_module/jwt.go, main.go, wallet.go           *)
(***************************************************************************)
EXTENDS Integers, Sequences, FiniteSets, TLC

VARIABLES
    now,              \* the wall clock (time.Now), in abstract seconds
    docIdx,           \* which key-set document the provider serves now
    cache,            \* JWKSCache.cache: kid -> key material (or NoKey)
    lastFetch,        \* JWKSCache.lastFetch (Never: Go's zero time)
    tok,              \* the token handed to the verifier
    impl,             \* which implementation verifies it
    ver,              \* the verification call's record, NoVer before it ran
    gk,               \* per caller: the frame of its JWKSCache.GetKey call
    cacheWriter,      \* the callers holding cacheMutex for writing (at most one)
    config,           \* the wallet part of the module configuration
    store,            \* storage collection "wallet": external id -> record
    wf,               \* per caller: the frame of its ensureWallet call
    writes,           \* per external id: StorageWrite calls that succeeded
    calls,            \* ensureWallet calls started so far
    readFailed,       \* some StorageRead of the wallet collection failed
    seen,             \* per external id: <<address, chain>> ever returned/stored
    accounts,         \* custom ids AuthenticateCustom has an account for
    linked,           \* <<user id, custom id>> pairs made by LinkCustom
    rpc               \* the RPC call's record, NoRpc before it ran

vars == <<now, docIdx, cache, lastFetch, tok, impl, ver, gk, cacheWriter,
          config, store, wf, writes, calls, readFailed, seen,
          accounts, linked, rpc>>

verVars == <<tok, impl, ver>>
gkVars == <<gk, cacheWriter>>
walletVars == <<config, store, wf, writes, calls, readFailed, seen>>
rpcVars == <<accounts, linked, rpc>>

-----------------------------------------------------------------------------
(* Bounds of the model *)

MaxTime == 2
TTL == 1
MaxAudLen == 2
NumProcs == 2

-----------------------------------------------------------------------------
(* Values *)

Absent == "<absent>"
NoKey == "<nokey>"
NoKid == "<nokid>"
Never == -1
NoExp == -1
NoVer == [done |-> FALSE]

\* The configured issuer and audience (runtime: Config.CognitoIssuer and
\* CognitoAudience; cognito_module: CognitoConfig.Issuer and Audience), both
\* set and non-empty as the modules' documentation requires.
Issuer == "https://idp.example/pool1"
OtherIssuer == "https://idp.example/pool2"
Audience == "client-abc"
OtherAudience == "client-xyz"

Kids == {"k1", "k2"}
Procs == 1..NumProcs
Impls == {"runtime", "cognito_module"}

-----------------------------------------------------------------------------
(* The provider's key-set documents (GET {issuer}/.well-known/jwks.json).   *)
(* The provider rotates its keys: k1 alone, then k1 and k2, then k2 alone.  *)

JWK(kid, kty, n, enc) == [kid |-> kid, kty |-> kty, n |-> n, enc |-> enc]

Docs == <<
    << JWK("k1", "RSA", "m1", "ok"), JWK("k2", "EC", "m2", "ok"),
       JWK("k2", "RSA", "m2", "bad") >>,
    << JWK("k1", "RSA", "m1", "ok"), JWK("k2", "RSA", "m2", "ok") >>,
    << JWK("k2", "RSA", "m2", "ok") >> >>

jwksDoc == Docs[docIdx]

\* jwkToRSAPublicKey: base64url-decodes n and e; an undecodable entry is an
\* error, a decodable one yields the public key (its modulus stands for it).
jwkToRSAPublicKey(jwk) ==
    IF jwk.enc = "ok" THEN [err |-> FALSE, key |-> jwk.n]
    ELSE [err |-> TRUE, key |-> NoKey]

\* An entry fetchJWKS stores: kty RSA and convertible.
Usable(jwk) == jwk.kty = "RSA" /\ ~jwkToRSAPublicKey(jwk).err

\* The kids the document publishes as usable signing keys.
DocKids(doc) == { doc[i].kid : i \in { j \in 1..Len(doc) : Usable(doc[j]) } }

\* The loop of fetchJWKS over jwks.Keys, entry i onwards: c.cache[jwk.Kid] = key
\* for every usable entry. Entries already cached and absent from the document
\* are left in place.
RECURSIVE StoreKeys(_, _, _)
StoreKeys(c, doc, i) ==
    IF i > Len(doc) THEN c
    ELSE IF Usable(doc[i])
         THEN StoreKeys([c EXCEPT ![doc[i].kid] = jwkToRSAPublicKey(doc[i]).key],
                        doc, i + 1)
         ELSE StoreKeys(c, doc, i + 1)

CacheAfterFetch(c, doc) == StoreKeys(c, doc, 1)

EmptyCache == [k \in Kids |-> NoKey]

\* needsRefresh := time.Since(c.lastFetch) > c.ttl
NeedsRefresh(lf, t) == lf = Never \/ t - lf > TTL

\* A faulty first look: a cached key is used however old the cache is.
CacheHit_IgnoreTTL(c, lf, t, kid) == c[kid] # NoKey

\* GetKey's first look at the cache: if exists && !needsRefresh
CacheHit(c, lf, t, kid) == c[kid] # NoKey /\ ~NeedsRefresh(lf, t)

\* What a failed fetch does to the cache: fetchJWKS returns before it takes
\* the lock.
CacheOnFetchError(c) == c
\* A faulty error path: the failed fetch stamps lastFetch.
LastFetchOnFetchError_Stamped(lf, t) == t

LastFetchOnFetchError(lf, t) == lf

\* JWKSCache.GetKey run without interleaving at time t; fetchOk says whether
\* the network fetch (if one is made) succeeds, doc is what it returns.
GetKey(c, lf, t, kid, fetchOk, doc) ==
    IF CacheHit(c, lf, t, kid)
    THEN [key |-> c[kid], err |-> "none", cache |-> c, lastFetch |-> lf,
          fetches |-> 0]
    ELSE IF ~fetchOk
    THEN [key |-> NoKey, err |-> "fetch", cache |-> CacheOnFetchError(c),
          lastFetch |-> LastFetchOnFetchError(lf, t), fetches |-> 1]
    ELSE LET c2 == CacheAfterFetch(c, doc) IN
         [key |-> c2[kid], err |-> IF c2[kid] = NoKey THEN "notfound" ELSE "none",
          cache |-> c2, lastFetch |-> t, fetches |-> 1]

-----------------------------------------------------------------------------
(* JWKSCache.GetKey step by step, called concurrently (cognito_module).     *)
(* A frame's pc: idle; http (the first look missed and fetchJWKS's http.Get *)
(* is in flight); parsed (the response is read and parsed); locked (holding *)
(* cacheMutex.Lock); fetched (fetchJWKS returned nil); done.                *)

IdleFrame ==
    [pc |-> "idle", kid |-> NoKid, doc |-> 0, key |-> NoKey, err |-> "none",
     fetches |-> 0]

Frame(pc, kid, doc, key, err, fetches) ==
    [pc |-> pc, kid |-> kid, doc |-> doc, key |-> key, err |-> err,
     fetches |-> fetches]

\* A faulty lock: a call keeps the mutex while its HTTP request is in flight.
RLockFree_HeldAcrossFetch(g, w, p) ==
    /\ w = {}
    /\ \A q \in Procs \ {p} : g[q].pc # "http"

\* c.cacheMutex.RLock() returns at once: a sync.RWMutex admits a reader
\* unless a writer holds it, however many readers there are; g is the calls'
\* frames, w the holder of the write lock
RLockFree(g, w, p) == w = {}

\* GetKey, first read-locked section (RLock .. RUnlock) and the decision.
GetKeyRead(p) ==
    /\ gk[p].pc = "idle"
    /\ RLockFree(gk, cacheWriter, p)
    /\ \E kid \in Kids :
         gk' = [gk EXCEPT ![p] =
                  IF CacheHit(cache, lastFetch, now, kid)
                  THEN Frame("done", kid, 0, cache[kid], "none", 0)
                  ELSE Frame("http", kid, 0, NoKey, "none", 1)]
    /\ UNCHANGED <<now, docIdx, cache, lastFetch, verVars, cacheWriter, walletVars, rpcVars>>

\* fetchJWKS: http.Get fails, the status is not 200, the body cannot be read
\* or is not JSON; GetKey wraps the error and returns it.
FetchFail(p) ==
    /\ gk[p].pc = "http"
    /\ gk' = [gk EXCEPT ![p] = [@ EXCEPT !.pc = "done", !.err = "fetch"]]
    /\ cache' = CacheOnFetchError(cache)
    /\ lastFetch' = LastFetchOnFetchError(lastFetch, now)
    /\ UNCHANGED <<now, docIdx, verVars, cacheWriter, walletVars, rpcVars>>

\* fetchJWKS: the response arrives and parses; it is the document the provider
\* serves at this moment.
FetchRespond(p) ==
    /\ gk[p].pc = "http"
    /\ gk' = [gk EXCEPT ![p] = [@ EXCEPT !.pc = "parsed", !.doc = docIdx]]
    /\ UNCHANGED <<now, docIdx, cache, lastFetch, verVars, cacheWriter, walletVars, rpcVars>>

\* fetchJWKS: c.cacheMutex.Lock()
LockCache(p) ==
    /\ gk[p].pc = "parsed"
    /\ cacheWriter = {}
    /\ cacheWriter' = {p}
    /\ gk' = [gk EXCEPT ![p] = [@ EXCEPT !.pc = "locked"]]
    /\ UNCHANGED <<now, docIdx, cache, lastFetch, verVars, walletVars, rpcVars>>

\* fetchJWKS: the update loop, c.lastFetch = time.Now(), deferred Unlock
UpdateCache(p) ==
    /\ gk[p].pc = "locked"
    /\ cache' = CacheAfterFetch(cache, Docs[gk[p].doc])
    /\ lastFetch' = now
    /\ cacheWriter' = {}
    /\ gk' = [gk EXCEPT ![p] = [@ EXCEPT !.pc = "fetched"]]
    /\ UNCHANGED <<now, docIdx, verVars, walletVars, rpcVars>>

\* GetKey, second read-locked section: the key, or "not found in JWKS".
GetKeyReread(p) ==
    /\ gk[p].pc = "fetched"
    /\ RLockFree(gk, cacheWriter, p)
    /\ gk' = [gk EXCEPT ![p] =
                [@ EXCEPT !.pc = "done", !.key = cache[gk[p].kid],
                          !.err = IF cache[gk[p].kid] = NoKey THEN "notfound"
                                  ELSE "none"]]
    /\ UNCHANGED <<now, docIdx, cache, lastFetch, verVars, cacheWriter, walletVars, rpcVars>>

\* the caller takes the result; the frame is free for the next call
GetKeyReturn(p) ==
    /\ gk[p].pc = "done"
    /\ gk' = [gk EXCEPT ![p] = IdleFrame]
    /\ UNCHANGED <<now, docIdx, cache, lastFetch, verVars, cacheWriter, walletVars, rpcVars>>

-----------------------------------------------------------------------------
(* Wallet provisioning: ensureWallet step by step, called concurrently.     *)
(* A frame's pc: idle; read (about to call StorageRead); derive (nothing    *)
(* usable was read); write (about to call StorageWrite); done.              *)

MaxCalls == 2

MasterKeyARN == "arn:aws:kms:region:acct:key/1"
Chains == {"evm", "solana", "doge"}
Subjects == {"user-42", "user-7"}

ExternalID(sub) == "cognito:" \o sub
ExternalIDs == { ExternalID(sub) : sub \in Subjects }

Configs ==
    { [walletEnabled |-> e, chain |-> c, masterKey |-> MasterKeyARN] :
        e \in BOOLEAN, c \in Chains }

DefaultConfig ==
    [walletEnabled |-> FALSE, chain |-> "evm", masterKey |-> MasterKeyARN]

\* A faulty hash: every input has the same digest.
Sha256_Constant(x) == <<"sha256", "same">>

Sha256(x) == <<"sha256", x>>

\* 32-byte values crypto.ToECDSA rejects (zero, or not below the curve order)
InvalidScalars == { Sha256(<<MasterKeyARN, ":", ExternalID("user-7")>>) }

UnixMilli(t) == t * 1000
Unix(t) == t

\* A faulty derivation: the key depends on the time of the derivation.
deriveEVMAddress_Timed(externalID, cfg) ==
    [err |-> "none",
     address |-> <<"PubkeyToAddress", Sha256(<<cfg.masterKey, ":", externalID, now>>)>>]

deriveEVMAddress(externalID, cfg) ==
    LET hash == Sha256(<<cfg.masterKey, ":", externalID>>) IN
    IF hash \in InvalidScalars
    THEN [err |-> "derive", address |-> <<>>]
    ELSE [err |-> "none", address |-> <<"PubkeyToAddress", hash>>]

deriveWalletAddress(externalID, cfg) ==
    IF cfg.chain = "evm" THEN deriveEVMAddress(externalID, cfg)
    ELSE [err |-> "INVALID_CHAIN", address |-> <<>>]

deriveAddress(externalID, chain) ==
    LET hash == Sha256(externalID) IN
    CASE chain = "evm"    -> [err |-> "none", address |-> <<"0x", "hex20", hash>>]
      [] chain = "solana" -> [err |-> "none", address |-> <<"hex32", hash>>]
      [] OTHER            -> [err |-> "unsupported chain", address |-> <<>>]

\* A faulty derivation: every chain name is served.
Derive_AnyChain(im, externalID, cfg) ==
    [err |-> "none", address |-> <<"addr", cfg.chain, externalID>>]

\* A faulty derivation: the address depends on when it is derived.
Derive_Timestamped(im, externalID, cfg) ==
    [err |-> "none", address |-> <<"addr", externalID, now>>]

\* the derivation each implementation's ensureWallet calls
Derive(im, externalID, cfg) ==
    IF im = "runtime" THEN deriveWalletAddress(externalID, cfg)
    ELSE deriveAddress(externalID, cfg.chain)

CreatedAt(im, t) == IF im = "runtime" THEN UnixMilli(t) ELSE Unix(t)

Wallet(chain, address, createdAt) ==
    [chain |-> chain, address |-> address, createdAt |-> createdAt]

WalletCollection == "wallet"

\* the runtime.StorageWrite each implementation builds for a wallet record;
\* permissionRead 0 is no read, 1 owner read, 2 public read, and
\* permissionWrite 0 is no write by clients
WalletWriteOp(im, externalID, wallet) ==
    [collection |-> WalletCollection, key |-> externalID, value |-> wallet,
     permissionRead |-> IF im = "runtime" THEN 1 ELSE 0,
     permissionWrite |-> 0]

\* the storage objects by key; StorageRead answers with the records held by
\* the objects under the key (none or one), StorageWrite puts the object of
\* the write under its key
EmptyStore == [id \in ExternalIDs |-> <<>>]

StorageRead(st, key) ==
    IF key \in DOMAIN st THEN [i \in 1..Len(st[key]) |-> st[key][i].value]
    ELSE <<>>

StorageWrite(st, op) ==
    [k \in DOMAIN st \cup {op.key} |-> IF k = op.key THEN <<op>> ELSE st[k]]

IdleWallet ==
    [pc |-> "idle", id |-> "", rec |-> <<>>, err |-> "none",
     existed |-> FALSE, stored |-> <<>>, derived |-> FALSE, wrote |-> FALSE,
     readErr |-> FALSE]

NoRpc == [done |-> FALSE]

WalletIdle ==
    /\ config = DefaultConfig
    /\ store = EmptyStore
    /\ wf = [p \in Procs |-> IdleWallet]
    /\ writes = [id \in ExternalIDs |-> 0]
    /\ calls = 0
    /\ readFailed = FALSE
    /\ seen = [id \in ExternalIDs |-> {}]

RpcIdle ==
    /\ accounts = {}
    /\ linked = {}
    /\ rpc = NoRpc

Identity(rec) == <<rec.address, rec.chain>>

WalletDone(f, rec, err) == [f EXCEPT !.pc = "done", !.rec = rec, !.err = err]

otherThanWallet == <<now, docIdx, cache, lastFetch, verVars, gkVars, rpcVars>>

\* ensureWallet is entered; runtime returns ErrWalletNotEnabled at once when
\* the wallet is disabled, cognito_module has no such check.
WalletCall(p) ==
    /\ wf[p].pc = "idle"
    /\ calls < MaxCalls
    /\ calls' = calls + 1
    /\ \E id \in ExternalIDs :
         wf' = [wf EXCEPT ![p] =
                  IF impl = "runtime" /\ ~config.walletEnabled
                  THEN WalletDone([IdleWallet EXCEPT !.id = id], <<>>,
                                  "WALLET_NOT_ENABLED")
                  ELSE [IdleWallet EXCEPT !.pc = "read", !.id = id]]
    /\ UNCHANGED <<config, store, writes, readFailed, seen, otherThanWallet>>

\* nk.StorageRead and what ensureWallet makes of its answer.  runtime: an
\* error is returned, a found object is returned, otherwise provision.
\* cognito_module: readWallet's error (read failed, or nothing found) sends
\* ensureWallet to the creation path whatever the error was.
WalletRead(p) ==
    /\ wf[p].pc = "read"
    /\ \E readOk \in BOOLEAN :
         LET objects == StorageRead(store, wf[p].id)
             f == [wf[p] EXCEPT !.existed = objects # <<>>, !.stored = objects,
                                !.readErr = ~readOk]
         IN
         /\ readFailed' = (readFailed \/ ~readOk)
         /\ IF readOk /\ Len(objects) > 0
            THEN /\ wf' = [wf EXCEPT ![p] = WalletDone(f, objects, "none")]
                 /\ seen' = [seen EXCEPT ![f.id] = @ \cup {Identity(objects[1])}]
            ELSE /\ wf' = [wf EXCEPT ![p] =
                            IF ~readOk /\ impl = "runtime"
                            THEN WalletDone(f, <<>>, "read")
                            ELSE [f EXCEPT !.pc = "derive"]]
                 /\ seen' = seen
    /\ UNCHANGED <<config, store, writes, calls, otherThanWallet>>

\* the address derivation and the record built with the current time
WalletDerive(p) ==
    /\ wf[p].pc = "derive"
    /\ LET f == [wf[p] EXCEPT !.derived = TRUE]
           d == Derive(impl, f.id, config)
       IN wf' = [wf EXCEPT ![p] =
                   IF d.err # "none" THEN WalletDone(f, <<>>, d.err)
                   ELSE [f EXCEPT !.pc = "write",
                                  !.rec = <<Wallet(config.chain, d.address,
                                                   CreatedAt(impl, now))>>]]
    /\ UNCHANGED <<config, store, writes, calls, readFailed, seen,
                   otherThanWallet>>

\* nk.StorageWrite: an unconditional write of the record under the id
WalletWrite(p) ==
    /\ wf[p].pc = "write"
    /\ \E writeOk \in BOOLEAN :
         LET f == wf[p] IN
         IF writeOk
         THEN /\ store' = StorageWrite(store, WalletWriteOp(impl, f.id, f.rec[1]))
              /\ writes' = [writes EXCEPT ![f.id] = @ + 1]
              /\ seen' = [seen EXCEPT ![f.id] = @ \cup {Identity(f.rec[1])}]
              /\ wf' = [wf EXCEPT ![p] =
                          WalletDone([f EXCEPT !.wrote = TRUE], f.rec, "none")]
         ELSE /\ wf' = [wf EXCEPT ![p] = WalletDone(f, <<>>, "write")]
              /\ UNCHANGED <<store, writes, seen>>
    /\ UNCHANGED <<config, calls, readFailed, otherThanWallet>>

\* the caller takes the result; the frame is free for the next call
WalletReturn(p) ==
    /\ wf[p].pc = "done"
    /\ wf' = [wf EXCEPT ![p] = IdleWallet]
    /\ UNCHANGED <<config, store, writes, calls, readFailed, seen,
                   otherThanWallet>>

-----------------------------------------------------------------------------
(* Identity tokens.  A token is its header (alg, kid), the key material that *)
(* produced its signature (sig; "forged" is a key the provider never had)   *)
(* and its claims; an absent claim is Absent (NoExp for exp).  The audience   *)
(* claim is absent, one string, or a list of strings.                       *)

AudLists == UNION { [1..n -> {Audience, OtherAudience}] : n \in 0..MaxAudLen }

AudClaims ==
    {[kind |-> "absent", vals |-> <<>>]}
    \cup {[kind |-> "string", vals |-> <<a>>] : a \in {Audience, OtherAudience}}
    \cup {[kind |-> "list", vals |-> l] : l \in AudLists}

\* The reference token of the spec's scenario 1, signed by k1 and not expiring
\* within the model's horizon.
GoodToken ==
    [alg |-> "RS256", kid |-> "k1", sig |-> "m1", iss |-> Issuer,
     aud |-> [kind |-> "string", vals |-> <<Audience>>], token_use |-> "id",
     exp |-> MaxTime + 1, sub |-> "user-42"]

TokenFields == {"alg", "kid", "sig", "iss", "aud", "token_use", "exp", "sub"}

FieldValues(f) ==
    CASE f = "alg" -> {"RS256", "HS256", "none"}
      [] f = "kid" -> Kids \cup {NoKid}
      [] f = "sig" -> {"m1", "m2", "forged"}
      [] f = "iss" -> {Issuer, OtherIssuer, Absent}
      [] f = "aud" -> AudClaims
      [] f = "token_use" -> {"id", "access", Absent}
      [] f = "exp" -> {NoExp} \cup (0..(MaxTime + 1))
      [] f = "sub" -> {"user-42", "user-7", "", Absent}

\* The tokens verified: all that differ from the reference token in at most
\* two fields.
Tokens ==
    UNION { { [GoodToken EXCEPT ![f] = a, ![g] = b] :
                a \in FieldValues(f), b \in FieldValues(g) } :
            <<f, g>> \in TokenFields \X TokenFields }

\* jwt.ClaimStrings: a string decodes to a one-element list, a list to itself,
\* an absent claim to the empty list.
ClaimStrings(aud) == aud.vals

\* A string field of CognitoTokenClaims: the zero value "" when absent.
StringClaim(v) == IF v = Absent THEN "" ELSE v

Contains(list, a) == \E i \in 1..Len(list) : list[i] = a

-----------------------------------------------------------------------------
(* runtime/auth.go *)

Result(ok, code, cause, key, sub) ==
    [ok |-> ok, code |-> code, cause |-> cause, key |-> key, sub |-> sub]

\* m.jwks.Keyfunc (keyfunc library): the key the provider publishes under the
\* token's kid; an error when the header has no kid, the kid is unknown or the
\* key set could not be obtained (libOk = FALSE).
Keyfunc(t, doc, libOk) ==
    IF ~libOk \/ t.kid = NoKid \/ t.kid \notin DocKids(doc)
    THEN [err |-> TRUE, key |-> NoKey]
    ELSE [err |-> FALSE, key |-> CacheAfterFetch(EmptyCache, doc)[t.kid]]

\* m.jwks.Keyfunc reads the key store for every token that carries a kid; the
\* token's alg plays no part in that.
KeyfuncLookup(t) == t.kid # NoKid

\* jwt.ParseWithClaims(tokenStr, &CognitoTokenClaims{}, m.jwks.Keyfunc) at time
\* t1: resolve the key, verify the signature with it (an RSA public key
\* verifies RS* signatures only), then validate exp when the claim is present.
ParseWithClaims(t, t1, doc, libOk) ==
    LET kf == Keyfunc(t, doc, libOk) IN
    IF kf.err THEN [err |-> "keyfunc", key |-> NoKey]
    ELSE IF t.alg # "RS256" \/ t.sig # kf.key
    THEN [err |-> "signature", key |-> kf.key]
    ELSE IF t.exp # NoExp /\ ~(t1 < t.exp)
    THEN [err |-> "expired", key |-> kf.key]
    ELSE [err |-> "none", key |-> kf.key]

\* A faulty audience loop: any audience at all is accepted.
ValidAudience_AnyEntry(list) == Len(list) > 0

\* The audience loop: some entry of claims.Audience equals the configured one.
ValidAudience(list) == Contains(list, Audience)

\* JWKSManager.VerifyCognitoIDToken; t1 is the clock when the token is parsed,
\* t2 >= t1 the clock at the expiry double-check.
VerifyCognitoIDToken(t, t1, t2, doc, libOk) ==
    LET p == ParseWithClaims(t, t1, doc, libOk) IN
    IF p.err # "none"
    THEN Result(FALSE, "TOKEN_PARSE_FAILED", p.err, p.key, Absent)
    ELSE IF StringClaim(t.iss) # Issuer
    THEN Result(FALSE, "INVALID_ISSUER", "none", p.key, Absent)
    ELSE IF ~ValidAudience(ClaimStrings(t.aud))
    THEN Result(FALSE, "INVALID_AUDIENCE", "none", p.key, Absent)
    ELSE IF StringClaim(t.token_use) # "id"
    THEN Result(FALSE, "INVALID_TOKEN_USE", "none", p.key, Absent)
    ELSE IF t.exp = NoExp
    THEN Result(FALSE, "PANIC", "nil ExpiresAt", p.key, Absent)
    ELSE IF t2 > t.exp
    THEN Result(FALSE, "TOKEN_EXPIRED", "none", p.key, Absent)
    ELSE IF StringClaim(t.sub) = ""
    THEN Result(FALSE, "MISSING_SUBJECT", "none", p.key, Absent)
    ELSE Result(TRUE, "OK", "none", p.key, t.sub)

-----------------------------------------------------------------------------
(* cognito_module/jwt.go *)

\* The key function handed to jwt.Parse: only RSA signing methods, a kid in the
\* header, then JWKSCache.GetKey.  called says whether GetKey was called.
cognitoKeyfunc(t, c, lf, t1, fetchOk, doc) ==
    IF t.alg # "RS256"
    THEN [called |-> FALSE, err |-> "alg",
          gk |-> [key |-> NoKey, err |-> "none", cache |-> c, lastFetch |-> lf,
                  fetches |-> 0]]
    ELSE IF t.kid = NoKid
    THEN [called |-> FALSE, err |-> "kid",
          gk |-> [key |-> NoKey, err |-> "none", cache |-> c, lastFetch |-> lf,
                  fetches |-> 0]]
    ELSE LET g == GetKey(c, lf, t1, t.kid, fetchOk, doc) IN
         [called |-> TRUE, err |-> g.err, gk |-> g]

\* jwt.Parse(idToken, keyfunc) at time t1.
Parse(t, c, lf, t1, fetchOk, doc) ==
    LET kf == cognitoKeyfunc(t, c, lf, t1, fetchOk, doc) IN
    IF kf.err # "none" THEN [err |-> kf.err, kf |-> kf]
    ELSE IF t.sig # kf.gk.key THEN [err |-> "signature", kf |-> kf]
    ELSE IF t.exp # NoExp /\ ~(t1 < t.exp) THEN [err |-> "expired", kf |-> kf]
    ELSE [err |-> "none", kf |-> kf]

\* aud, ok := claims["aud"].(string); otherwise the first entry of an array.
cognitoAud(aud) ==
    IF aud.kind = "string" THEN aud.vals[1]
    ELSE IF aud.kind = "list" /\ Len(aud.vals) > 0 THEN aud.vals[1]
    ELSE ""

\* CognitoModule.verifyCognitoIDToken; the result carries the key cache as the
\* call leaves it.
verifyCognitoIDToken(t, t1, t2, c, lf, fetchOk, doc) ==
    LET p == Parse(t, c, lf, t1, fetchOk, doc)
        g == p.kf.gk
        R(ok, code, cause, sub) ==
            [ok |-> ok, code |-> code, cause |-> cause, key |-> g.key,
             sub |-> sub, cache |-> g.cache, lastFetch |-> g.lastFetch,
             fetches |-> g.fetches, getKey |-> p.kf.called]
    IN
    IF p.err # "none" THEN R(FALSE, "parse", p.err, Absent)
    ELSE IF t.iss = Absent \/ t.iss # Issuer THEN R(FALSE, "issuer", "none", Absent)
    ELSE IF cognitoAud(t.aud) # Audience THEN R(FALSE, "audience", "none", Absent)
    ELSE IF t.token_use = Absent \/ t.token_use # "id"
    THEN R(FALSE, "token_use", "none", Absent)
    ELSE IF t.exp = NoExp THEN R(FALSE, "exp", "missing", Absent)
    ELSE IF t2 >= t.exp THEN R(FALSE, "exp", "expired", Absent)
    ELSE R(TRUE, "OK", "none", t.sub)

-----------------------------------------------------------------------------
(* Verification of one token against an evolving key cache and clock.       *)

InitVerify ==
    /\ now = 0
    /\ docIdx = 1
    /\ cache = EmptyCache
    /\ lastFetch = Never
    /\ tok \in Tokens
    /\ impl \in Impls
    /\ ver = NoVer
    /\ gk = [p \in Procs |-> IdleFrame]
    /\ cacheWriter = {}
    /\ WalletIdle
    /\ RpcIdle

\* time passes
Tick ==
    /\ ~ver.done
    /\ now < MaxTime
    /\ now' = now + 1
    /\ UNCHANGED <<docIdx, cache, lastFetch, verVars, gkVars, walletVars, rpcVars>>

\* the provider rotates its signing keys
Rotate ==
    /\ ~ver.done
    /\ docIdx < Len(Docs)
    /\ docIdx' = docIdx + 1
    /\ UNCHANGED <<now, cache, lastFetch, verVars, gkVars, walletVars, rpcVars>>

\* the key lookup of an earlier verification (cognito_module)
EarlierGetKey ==
    /\ ~ver.done
    /\ impl = "cognito_module"
    /\ \E kid \in Kids, fetchOk \in BOOLEAN :
         LET g == GetKey(cache, lastFetch, now, kid, fetchOk, jwksDoc) IN
         /\ cache' = g.cache
         /\ lastFetch' = g.lastFetch
    /\ UNCHANGED <<now, docIdx, verVars, gkVars, walletVars, rpcVars>>

VerRecord(r, t1, t2, getKey, fetches) ==
    [done |-> TRUE, ok |-> r.ok, code |-> r.code, cause |-> r.cause,
     key |-> r.key, sub |-> r.sub, t1 |-> t1, t2 |-> t2,
     getKey |-> getKey, fetches |-> fetches,
     docKids |-> DocKids(jwksDoc), cacheBefore |-> cache,
     freshBefore |-> ~NeedsRefresh(lastFetch, t1)]

VerifyRuntime ==
    /\ ~ver.done
    /\ impl = "runtime"
    /\ \E d \in {0, 1}, libOk \in BOOLEAN :
         /\ now + d <= MaxTime
         /\ now' = now + d
         /\ ver' = VerRecord(VerifyCognitoIDToken(tok, now, now + d, jwksDoc, libOk),
                             now, now + d, KeyfuncLookup(tok), 0)
    /\ UNCHANGED <<docIdx, cache, lastFetch, tok, impl, gkVars, walletVars, rpcVars>>

VerifyCognito ==
    /\ ~ver.done
    /\ impl = "cognito_module"
    /\ \E d \in {0, 1}, fetchOk \in BOOLEAN :
         LET r == verifyCognitoIDToken(tok, now, now + d, cache, lastFetch,
                                       fetchOk, jwksDoc) IN
         /\ now + d <= MaxTime
         /\ now' = now + d
         /\ cache' = r.cache
         /\ lastFetch' = r.lastFetch
         /\ ver' = VerRecord(r, now, now + d, r.getKey, r.fetches)
    /\ UNCHANGED <<docIdx, tok, impl, gkVars, walletVars, rpcVars>>

NextVerify == Tick \/ Rotate \/ EarlierGetKey \/ VerifyRuntime \/ VerifyCognito

SpecVerify == InitVerify /\ [][NextVerify]_vars

-----------------------------------------------------------------------------
(* Concurrent GetKey calls on one key cache.                                *)

InitCache ==
    /\ now = 0
    /\ docIdx = 1
    /\ cache = EmptyCache
    /\ lastFetch = Never
    /\ tok = GoodToken
    /\ impl = "cognito_module"
    /\ ver = NoVer
    /\ gk = [p \in Procs |-> IdleFrame]
    /\ cacheWriter = {}
    /\ WalletIdle
    /\ RpcIdle

NextCache ==
    \/ Tick
    \/ Rotate
    \/ \E p \in Procs :
         \/ GetKeyRead(p)
         \/ FetchFail(p)
         \/ FetchRespond(p)
         \/ LockCache(p)
         \/ UpdateCache(p)
         \/ GetKeyReread(p)
         \/ GetKeyReturn(p)

SpecCache == InitCache /\ [][NextCache]_vars

-----------------------------------------------------------------------------
(* Concurrent ensureWallet calls on one wallet collection.                  *)

InitWallet ==
    /\ now = 0
    /\ docIdx = 1
    /\ cache = EmptyCache
    /\ lastFetch = Never
    /\ tok = GoodToken
    /\ impl \in Impls
    /\ ver = NoVer
    /\ gk = [p \in Procs |-> IdleFrame]
    /\ cacheWriter = {}
    /\ config \in Configs
    /\ store = EmptyStore
    /\ wf = [p \in Procs |-> IdleWallet]
    /\ writes = [id \in ExternalIDs |-> 0]
    /\ calls = 0
    /\ readFailed = FALSE
    /\ seen = [id \in ExternalIDs |-> {}]
    /\ RpcIdle

NextWallet ==
    \/ Tick
    \/ \E p \in Procs :
         \/ WalletCall(p)
         \/ WalletRead(p)
         \/ WalletDerive(p)
         \/ WalletWrite(p)
         \/ WalletReturn(p)

SpecWallet == InitWallet /\ [][NextWallet]_vars

-----------------------------------------------------------------------------
(* The RPC handlers rpc_cognito_login and rpc_link_cognito, each executed   *)
(* as one call; trace lists the collaborator calls in the order made.       *)

RpcTokens ==
    UNION { { [GoodToken EXCEPT ![f] = a] : a \in FieldValues(f) } :
            f \in TokenFields }

Requests == {"bad json", "no token", "token"}
StorageFaults == {"none", "read", "write"}
CtxUsers == {"", "user-a"}

NakamaFaults == {"none", "account", "token"}

RpcInputs ==
    [request : Requests, create : BOOLEAN, nakama : NakamaFaults,
     storage : StorageFaults, keysOk : BOOLEAN, d : {0, 1}]

Err(code, cause) == [code |-> code, cause |-> cause]

\* the error a failed verification returned
VerError(v) == Err(v.code, v.cause)

\* the user id of the account that carries the custom id
UserIDOf(id) == <<"user id", id>>

\* nk.AuthenticateCustom: the account under the custom id, created on demand;
\* it returns the account's user id first, then its username, the created
\* flag and the error
AuthenticateCustom(accts, id, create, nkOk) ==
    LET found(a) == [err |-> FALSE, accounts |-> a, userID |-> UserIDOf(id),
                     username |-> <<"username", id>>]
        failed == [err |-> TRUE, accounts |-> accts, userID |-> "",
                   username |-> ""]
    IN
    IF ~nkOk THEN failed
    ELSE IF id \in accts THEN found(accts)
    ELSE IF create THEN found(accts \cup {id})
    ELSE failed

\* nk.AuthenticateTokenGenerate: a session token for the user id
AuthenticateTokenGenerate(userID, username) == <<"session", userID>>

\* nk.LinkCustom: attach the custom id to the user unless it is in use
LinkCustom(lk, accts, userID, id, nkOk) ==
    IF ~nkOk \/ id \in accts \/ (\E u \in CtxUsers : u # userID /\ <<u, id>> \in lk)
    THEN [err |-> TRUE, linked |-> lk]
    ELSE [err |-> FALSE, linked |-> lk \cup {<<userID, id>>}]

WalletResult(rec, err, st, events) ==
    [rec |-> rec, err |-> err, store |-> st, events |-> events]

\* A faulty provisioning: the record is stored under one fixed identity.
ensureWallet_FixedIdentity(im, cfg, st, id, t, fault) ==
    LET other == ExternalID("user-7")
        w == Wallet(cfg.chain, <<"addr", other>>, t)
    IN WalletResult(<<w>>, "none", StorageWrite(st, WalletWriteOp(im, other, w)),
                    <<>>)

\* ensureWallet run to completion by one caller at time t
ensureWallet(im, cfg, st, id, t, fault) ==
    LET objects == StorageRead(st, id)
        d == Derive(im, id, cfg)
        w == Wallet(cfg.chain, d.address, CreatedAt(im, t))
    IN
    IF im = "runtime" /\ ~cfg.walletEnabled
    THEN WalletResult(<<>>, "WALLET_NOT_ENABLED", st, <<>>)
    ELSE IF im = "runtime" /\ fault = "read"
    THEN WalletResult(<<>>, "read", st, <<"StorageRead">>)
    ELSE IF fault # "read" /\ Len(objects) > 0
    THEN WalletResult(objects, "none", st, <<"StorageRead">>)
    ELSE IF d.err # "none"
    THEN WalletResult(<<>>, d.err, st, <<"StorageRead">>)
    ELSE IF fault = "write"
    THEN WalletResult(<<>>, "write", st, <<"StorageRead", "StorageWrite">>)
    ELSE WalletResult(<<w>>, "none", StorageWrite(st, WalletWriteOp(im, id, w)),
                      <<"StorageRead", "StorageWrite">>)

NotRun == "not run"

Outcome(ok, err, trace, accts, lk, st, out) ==
    [ok |-> ok, err |-> err, trace |-> trace, accounts |-> accts,
     linked |-> lk, store |-> st, out |-> out, walletErr |-> NotRun]

\* the outcome of a handler that got as far as ensureWallet, which returned w
AfterWallet(o, w) == [o EXCEPT !.walletErr = w.err]

NoOut == [token |-> <<>>, wallet |-> <<>>]

\* A faulty handler test: the verifier's error is ignored.
VerifyFailed_Ignored(v) == FALSE

\* the handlers' test of the verifier's result: if err != nil
VerifyFailed(v) == ~v.ok

\* runtime rpcCognitoLogin after the payload was read; v is what
\* VerifyCognitoIDToken returned, t the time at the wallet step.  The handler
\* names the first value AuthenticateCustom returns "session" and puts it in
\* the response's token field.
rpcCognitoLogin(in, v, accts, lk, st, cfg, t) ==
    LET id == ExternalID(v.sub)
        a == AuthenticateCustom(accts, id, in.create, in.nakama # "account")
        w == ensureWallet("runtime", cfg, st, id, t, in.storage)
        V == <<"VerifyCognitoIDToken">>
        session == a.userID
    IN
    IF in.request = "bad json"
    THEN Outcome(FALSE, <<Err("INVALID_PAYLOAD", "none")>>, <<>>, accts, lk, st, NoOut)
    ELSE IF v.code = "PANIC"
    THEN Outcome(FALSE, <<Err("PANIC", v.cause)>>, V, accts, lk, st, NoOut)
    ELSE IF VerifyFailed(v)
    THEN Outcome(FALSE, <<VerError(v)>>, V, accts, lk, st, NoOut)
    ELSE IF a.err
    THEN Outcome(FALSE, <<Err("AUTH_FAILED", "nakama")>>,
                 V \o <<"AuthenticateCustom">>, accts, lk, st, NoOut)
    ELSE IF ~cfg.walletEnabled
    THEN Outcome(TRUE, <<>>, V \o <<"AuthenticateCustom", "AccountUpdateId">>,
                 a.accounts, lk, st, [token |-> session, wallet |-> <<>>])
    ELSE AfterWallet(Outcome(TRUE, <<>>,
                 V \o <<"AuthenticateCustom", "AccountUpdateId">> \o w.events,
                 a.accounts, lk, w.store,
                 [token |-> session, wallet |-> w.rec]), w)

\* runtime rpcLinkCognito for the session user userID
rpcLinkCognito(in, userID, v, accts, lk, st, cfg, t) ==
    LET id == ExternalID(v.sub)
        l == LinkCustom(lk, accts, userID, id, in.nakama # "account")
        w == ensureWallet("runtime", cfg, st, id, t, in.storage)
        V == <<"VerifyCognitoIDToken">>
    IN
    IF userID = ""
    THEN Outcome(FALSE, <<Err("UNAUTHORIZED", "none")>>, <<>>, accts, lk, st, NoOut)
    ELSE IF in.request = "bad json"
    THEN Outcome(FALSE, <<Err("INVALID_PAYLOAD", "none")>>, <<>>, accts, lk, st, NoOut)
    ELSE IF v.code = "PANIC"
    THEN Outcome(FALSE, <<Err("PANIC", v.cause)>>, V, accts, lk, st, NoOut)
    ELSE IF VerifyFailed(v)
    THEN Outcome(FALSE, <<VerError(v)>>, V, accts, lk, st, NoOut)
    ELSE IF l.err
    THEN Outcome(FALSE, <<Err("LINK_FAILED", "nakama")>>,
                 V \o <<"LinkCustom">>, accts, lk, st, NoOut)
    ELSE IF ~cfg.walletEnabled
    THEN Outcome(TRUE, <<>>, V \o <<"LinkCustom">>, accts, l.linked, st, NoOut)
    ELSE AfterWallet(Outcome(TRUE, <<>>, V \o <<"LinkCustom">> \o w.events,
                 accts, l.linked, w.store, [token |-> <<>>, wallet |-> w.rec]), w)

\* cognito_module rpcCognitoLogin; v is what verifyCognitoIDToken returned
cm_rpcCognitoLogin(in, v, accts, lk, st, cfg, t) ==
    LET id == ExternalID(v.sub)
        a == AuthenticateCustom(accts, id, in.create, in.nakama # "account")
        w == ensureWallet("cognito_module", cfg, st, id, t, in.storage)
        V == <<"verifyCognitoIDToken">>
        A == V \o <<"AuthenticateCustom", "updateUserMetadata">>
    IN
    IF in.request = "bad json"
    THEN Outcome(FALSE, <<Err("invalid request payload", "none")>>, <<>>,
                 accts, lk, st, NoOut)
    ELSE IF in.request = "no token"
    THEN Outcome(FALSE, <<Err("id_token is required", "none")>>, <<>>,
                 accts, lk, st, NoOut)
    ELSE IF VerifyFailed(v)
    THEN Outcome(FALSE, <<Err("token verification failed", "wrapped"), VerError(v)>>,
                 V, accts, lk, st, NoOut)
    ELSE IF v.sub = Absent \/ v.sub = ""
    THEN Outcome(FALSE, <<Err("missing or invalid sub", "none")>>, V,
                 accts, lk, st, NoOut)
    ELSE IF a.err
    THEN Outcome(FALSE, <<Err("authentication failed", "nakama")>>,
                 V \o <<"AuthenticateCustom">>, accts, lk, st, NoOut)
    ELSE IF w.err # "none"
    THEN AfterWallet(Outcome(FALSE, <<Err("failed to ensure wallet", w.err)>>,
                 A \o w.events, a.accounts, lk, w.store, NoOut), w)
    ELSE IF in.nakama = "token"
    THEN AfterWallet(Outcome(FALSE, <<Err("failed to generate token", "nakama")>>,
                 A \o w.events \o <<"AuthenticateTokenGenerate">>,
                 a.accounts, lk, w.store, NoOut), w)
    ELSE AfterWallet(Outcome(TRUE, <<>>,
                 A \o w.events \o <<"AuthenticateTokenGenerate">>,
                 a.accounts, lk, w.store,
                 [token |-> AuthenticateTokenGenerate(a.userID, a.username),
                  wallet |-> w.rec]), w)

\* cognito_module rpcLinkCognito for the session user userID
cm_rpcLinkCognito(in, userID, v, accts, lk, st, cfg, t) ==
    LET id == ExternalID(v.sub)
        l == LinkCustom(lk, accts, userID, id, in.nakama # "account")
        w == ensureWallet("cognito_module", cfg, st, id, t, in.storage)
        V == <<"verifyCognitoIDToken">>
        L == V \o <<"LinkCustom", "updateUserMetadata">>
    IN
    IF userID = ""
    THEN Outcome(FALSE, <<Err("user must be authenticated", "none")>>, <<>>,
                 accts, lk, st, NoOut)
    ELSE IF in.request = "bad json"
    THEN Outcome(FALSE, <<Err("invalid request payload", "none")>>, <<>>,
                 accts, lk, st, NoOut)
    ELSE IF in.request = "no token"
    THEN Outcome(FALSE, <<Err("id_token is required", "none")>>, <<>>,
                 accts, lk, st, NoOut)
    ELSE IF VerifyFailed(v)
    THEN Outcome(FALSE, <<Err("token verification failed", "wrapped"), VerError(v)>>,
                 V, accts, lk, st, NoOut)
    ELSE IF v.sub = Absent \/ v.sub = ""
    THEN Outcome(FALSE, <<Err("missing or invalid sub", "none")>>, V,
                 accts, lk, st, NoOut)
    ELSE IF l.err
    THEN Outcome(FALSE, <<Err("failed to link custom ID", "nakama")>>,
                 V \o <<"LinkCustom">>, accts, lk, st, NoOut)
    ELSE IF w.err # "none"
    THEN AfterWallet(Outcome(FALSE, <<Err("failed to ensure wallet", w.err)>>,
                 L \o w.events, accts, l.linked, w.store, NoOut), w)
    ELSE AfterWallet(Outcome(TRUE, <<>>, L \o w.events, accts, l.linked, w.store,
                 [token |-> <<>>, wallet |-> w.rec]), w)

\* the handler's record and its effects on the collaborators' state
RpcCommit(kind, o, v, called, d, getKey, fetches) ==
    /\ rpc' = [done |-> TRUE, kind |-> kind, ok |-> o.ok, err |-> o.err,
               trace |-> o.trace, out |-> o.out, walletErr |-> o.walletErr,
               verifyCalled |-> called,
               accountsBefore |-> accounts, linkedBefore |-> linked,
               storeBefore |-> store]
    /\ ver' = IF called THEN VerRecord(v, now, now + d, getKey, fetches) ELSE ver
    /\ now' = IF called THEN now + d ELSE now
    /\ accounts' = o.accounts
    /\ linked' = o.linked
    /\ store' = o.store

\* runtime hands the request's id_token to the verifier as it is; an empty
\* string does not parse
RuntimeVerify(in) ==
    IF in.request = "token"
    THEN VerifyCognitoIDToken(tok, now, now + in.d, jwksDoc, in.keysOk)
    ELSE Result(FALSE, "TOKEN_PARSE_FAILED", "malformed", NoKey, "")

CognitoVerify(in) ==
    verifyCognitoIDToken(tok, now, now + in.d, cache, lastFetch, in.keysOk,
                         jwksDoc)

walletBookkeeping == <<config, wf, writes, calls, readFailed, seen>>

LoginRuntime ==
    /\ ~rpc.done
    /\ impl = "runtime"
    /\ \E in \in RpcInputs :
       \E v \in {RuntimeVerify(in)} :
       \E o \in {rpcCognitoLogin(in, v, accounts, linked, store, config,
                                  now + in.d)} :
         /\ now + in.d <= MaxTime
         /\ RpcCommit("login", o, v, in.request # "bad json", in.d,
                      in.request = "token" /\ KeyfuncLookup(tok), 0)
    /\ UNCHANGED <<docIdx, cache, lastFetch, tok, impl, gkVars, walletBookkeeping>>

LinkRuntime ==
    /\ ~rpc.done
    /\ impl = "runtime"
    /\ \E in \in RpcInputs, userID \in CtxUsers :
       \E v \in {RuntimeVerify(in)} :
       \E o \in {rpcLinkCognito(in, userID, v, accounts, linked, store, config,
                                 now + in.d)} :
         /\ now + in.d <= MaxTime
         /\ RpcCommit("link", o, v, userID # "" /\ in.request # "bad json",
                      in.d, in.request = "token" /\ KeyfuncLookup(tok), 0)
    /\ UNCHANGED <<docIdx, cache, lastFetch, tok, impl, gkVars, walletBookkeeping>>

LoginCognito ==
    /\ ~rpc.done
    /\ impl = "cognito_module"
    /\ \E in \in RpcInputs :
       \E v \in {CognitoVerify(in)}, called \in {in.request = "token"} :
       \E o \in {cm_rpcCognitoLogin(in, v, accounts, linked, store, config,
                                     now + in.d)} :
         /\ now + in.d <= MaxTime
         /\ RpcCommit("login", o, v, called, in.d, v.getKey, v.fetches)
         /\ cache' = IF called THEN v.cache ELSE cache
         /\ lastFetch' = IF called THEN v.lastFetch ELSE lastFetch
    /\ UNCHANGED <<docIdx, tok, impl, gkVars, walletBookkeeping>>

LinkCognito ==
    /\ ~rpc.done
    /\ impl = "cognito_module"
    /\ \E in \in RpcInputs, userID \in CtxUsers :
       \E v \in {CognitoVerify(in)},
          called \in {userID # "" /\ in.request = "token"} :
       \E o \in {cm_rpcLinkCognito(in, userID, v, accounts, linked, store,
                                    config, now + in.d)} :
         /\ now + in.d <= MaxTime
         /\ RpcCommit("link", o, v, called, in.d, v.getKey, v.fetches)
         /\ cache' = IF called THEN v.cache ELSE cache
         /\ lastFetch' = IF called THEN v.lastFetch ELSE lastFetch
    /\ UNCHANGED <<docIdx, tok, impl, gkVars, walletBookkeeping>>

InitRpc ==
    /\ now = 0
    /\ docIdx = 1
    /\ cache = EmptyCache
    /\ lastFetch = Never
    /\ tok \in RpcTokens
    /\ impl \in Impls
    /\ ver = NoVer
    /\ gk = [p \in Procs |-> IdleFrame]
    /\ cacheWriter = {}
    /\ config \in { cfg \in Configs : cfg.chain # "solana" }
    /\ store = EmptyStore
    /\ wf = [p \in Procs |-> IdleWallet]
    /\ writes = [id \in ExternalIDs |-> 0]
    /\ calls = 0
    /\ readFailed = FALSE
    /\ seen = [id \in ExternalIDs |-> {}]
    /\ accounts \in {{}, {ExternalID("user-42")}}
    /\ linked = {}
    /\ rpc = NoRpc

NextRpc ==
    \/ Tick
    \/ LoginRuntime
    \/ LinkRuntime
    \/ LoginCognito
    \/ LinkCognito

SpecRpc == InitRpc /\ [][NextRpc]_vars

-----------------------------------------------------------------------------
(* Properties of token verification (SpecVerify) *)

\* The key the implementation resolves for the token's kid: the provider's
\* key (runtime, through the keyfunc library) or the key cache's entry.
ResolvedKey ==
    IF tok.kid = NoKid THEN NoKey
    ELSE IF impl = "runtime" THEN CacheAfterFetch(EmptyCache, jwksDoc)[tok.kid]
    ELSE cache[tok.kid]

\* The signature was checked against the resolved key and matched it.
SignatureVerified ==
    /\ tok.alg = "RS256"
    /\ ver.key # NoKey
    /\ ver.key = ResolvedKey
    /\ tok.sig = ver.key

SubjectPresent == tok.sub # Absent /\ tok.sub # ""

C3_UnknownKidNeverVerifies ==
    (/\ ver.done
     /\ impl = "cognito_module"
     /\ ver.fetches = 1
     /\ tok.kid \notin ver.docKids)
        => ~ver.ok

\* Signed by a key the provider's key set holds under the token's kid, the
\* key set being obtainable.
SignedByPublishedKey ==
    /\ tok.alg = "RS256"
    /\ tok.kid \in ver.docKids
    /\ tok.sig = CacheAfterFetch(EmptyCache, jwksDoc)[tok.kid]
    /\ ver.cause \notin {"fetch", "keyfunc"}

\* Every check other than the audience check passes.
OtherChecksPass ==
    /\ SignedByPublishedKey
    /\ tok.iss = Issuer
    /\ tok.token_use = "id"
    /\ tok.exp # NoExp /\ tok.exp > ver.t2
    /\ SubjectPresent

\* C4 as stated: a token whose audience claim is a list of several entries
\* containing the configured audience at any position is accepted, all other
\* checks passing.
C4_AudienceAnywhereInList ==
    (/\ ver.done
     /\ tok.aud.kind = "list"
     /\ Len(tok.aud.vals) >= 2
     /\ Contains(tok.aud.vals, Audience)
     /\ OtherChecksPass)
        => ver.ok

\* C5 as stated: a token signed by a key of the key set, with matching issuer,
\* audience and token_use, exp in the future and a non-empty sub, verifies and
\* the identity returned carries exactly its subject.
C5_GoodTokenVerifies ==
    (/\ ver.done
     /\ OtherChecksPass
     /\ Contains(ClaimStrings(tok.aud), Audience))
        => ver.ok /\ ver.sub = tok.sub

-----------------------------------------------------------------------------
(* Properties of the key cache under concurrent callers (SpecCache)         *)

Fetching == { p \in Procs : gk[p].pc = "http" }

\* C9: when concurrent GetKey calls miss on the same stale or empty cache, at
\* most one network fetch is performed: no two fetches are ever in progress at
\* the same time.
C9_SingleFlightFetch == Cardinality(Fetching) <= 1

\* C10: when the key-set fetch fails during a GetKey call, that step leaves
\* the cache table and lastFetch exactly as they were, and the call ends with
\* an error and no key.
C10_FailedFetchLeavesCache ==
    [][\A p \in Procs :
         (gk[p].pc = "http" /\ gk'[p].pc = "done")
            => /\ cache' = cache
               /\ lastFetch' = lastFetch
               /\ gk'[p].err = "fetch"
               /\ gk'[p].key = NoKey]_vars

\* C10 witness: a call ended with the fetch error while the stale cache still
\* holds the key it asked for and the time of the last successful fetch.
C10_Witness ==
    \E p \in Procs :
        /\ gk[p].pc = "done"
        /\ gk[p].err = "fetch"
        /\ cache[gk[p].kid] # NoKey
        /\ lastFetch # Never
        /\ NeedsRefresh(lastFetch, now)

-----------------------------------------------------------------------------
(* Properties of wallet provisioning (SpecWallet)                           *)

\* C6: across concurrent ensureWallet calls for one external identity that
\* start with no stored record (and with every storage read succeeding), at
\* most one storage write of a wallet record for that identity is performed.
C6_AtMostOneWalletWrite ==
    ~readFailed => \A id \in ExternalIDs : writes[id] <= 1

\* C7: every ensureWallet call that returns a record for an identity returns
\* the same address and chain, and every record ever stored for the identity
\* carries that same address and chain.
C7_SameAddressAndChain ==
    \A id \in ExternalIDs : Cardinality(seen[id]) <= 1

\* C7 witness: two concurrent callers both derived and wrote a record for the
\* same identity at different times, and each holds its returned record.
C7_Witness ==
    \E id \in ExternalIDs : \E p, q \in Procs :
        /\ p # q
        /\ writes[id] >= 2
        /\ wf[p].pc = "done" /\ wf[p].id = id /\ wf[p].err = "none"
        /\ wf[q].pc = "done" /\ wf[q].id = id /\ wf[q].err = "none"
        /\ wf[p].wrote /\ wf[q].wrote
        /\ wf[p].rec[1].createdAt # wf[q].rec[1].createdAt

\* C8: when a wallet record already exists for the identity, ensureWallet
\* derives no address and writes nothing, and the record it returns is the
\* stored one, unchanged.
C8_ExistingWalletReturnedUnchanged ==
    \A p \in Procs :
        wf[p].existed =>
            /\ ~wf[p].derived
            /\ ~wf[p].wrote
            /\ (wf[p].pc = "done" /\ wf[p].err = "none")
                  => wf[p].rec = wf[p].stored

-----------------------------------------------------------------------------
(* Properties of the RPC handlers (SpecRpc)                                 *)

VerifyCalls == {"VerifyCognitoIDToken", "verifyCognitoIDToken"}
AccountCalls == {"AuthenticateCustom", "LinkCustom"}

CallsIn(trace) == { trace[i] : i \in 1..Len(trace) }

\* C2: rpc_cognito_login calls AuthenticateCustom and returns a token, and
\* rpc_link_cognito calls LinkCustom, only after the verification made earlier
\* in the same call succeeded; when the verifier returns an error the handler
\* returns that error (as it is in runtime, wrapped in cognito_module), makes
\* no further call, and no account, link or wallet record is created.
C2_AccountOnlyAfterVerification ==
    rpc.done =>
        /\ \A i \in 1..Len(rpc.trace) :
             rpc.trace[i] \notin VerifyCalls
                => /\ rpc.verifyCalled
                   /\ ver.ok
                   /\ \E j \in 1..(i - 1) : rpc.trace[j] \in VerifyCalls
        /\ "LinkCustom" \in CallsIn(rpc.trace) => rpc.kind = "link"
        /\ "AuthenticateCustom" \in CallsIn(rpc.trace) => rpc.kind = "login"
        /\ rpc.out.token # <<>>
              => /\ rpc.kind = "login"
                 /\ rpc.ok
                 /\ "AuthenticateCustom" \in CallsIn(rpc.trace)
        /\ (rpc.verifyCalled /\ ~ver.ok)
              => /\ ~rpc.ok
                 /\ rpc.out = NoOut
                 /\ ver.code # "PANIC"
                       => \E i \in 1..Len(rpc.err) :
                            rpc.err[i] = Err(ver.code, ver.cause)
                 /\ CallsIn(rpc.trace) \subseteq VerifyCalls
                 /\ accounts = rpc.accountsBefore
                 /\ linked = rpc.linkedBefore
                 /\ store = rpc.storeBefore

\* C2 witness: a login whose token verified, for which AuthenticateCustom then
\* created the account, and which returned a session token.
C2_Witness ==
    /\ rpc.done
    /\ rpc.kind = "login"
    /\ rpc.verifyCalled
    /\ ver.ok
    /\ rpc.ok
    /\ rpc.out.token # <<>>
    /\ accounts # rpc.accountsBefore

-----------------------------------------------------------------------------
(* Further properties of the key cache and the verifiers                    *)

\* C11: a GetKey call fetches the key set exactly once when the requested key
\* id is not cached or the cache is older than the TTL and not at all
\* otherwise; a key id still absent after that fetch gives a not-found error
\* with no second fetch, so one verification causes at most one fetch.
C11_OneFetchPerGetKey ==
    (ver.done /\ impl = "cognito_module") =>
        /\ ver.fetches <= 1
        /\ ~ver.getKey => ver.fetches = 0
        /\ ver.getKey =>
             (ver.fetches = 0
                <=> (ver.cacheBefore[tok.kid] # NoKey /\ ver.freshBefore))
        /\ ver.cause = "notfound" => (ver.fetches = 1 /\ ~ver.ok)

\* C11 witness: the key id was still absent after the one fetch and the
\* verification ended with the not-found error.
C11_Witness ==
    /\ ver.done
    /\ impl = "cognito_module"
    /\ ver.getKey
    /\ ver.cause = "notfound"
    /\ ver.fetches = 1
    /\ cache[tok.kid] = NoKey
    /\ lastFetch = ver.t1

CachedKids == { k \in Kids : cache[k] # NoKey }

\* C12: after a successful refresh the key table holds exactly the keys of the
\* fetched key set; a key id cached before the refresh but absent from the
\* fetched document is no longer in the table.
C12_CacheReplacedByRefresh ==
    (/\ ver.done
     /\ impl = "cognito_module"
     /\ ver.getKey
     /\ ver.fetches = 1
     /\ ver.cause # "fetch")
        => CachedKids = ver.docKids

ForgedToken == [GoodToken EXCEPT !.sig = "forged"]

\* the error code each implementation returns for a bad signature
SignatureErrorCode(im) ==
    IF im = "runtime"
    THEN VerifyCognitoIDToken(ForgedToken, 0, 0, Docs[1], TRUE).code
    ELSE verifyCognitoIDToken(ForgedToken, 0, 0, EmptyCache, Never, TRUE,
                              Docs[1]).code

\* the verification failed because the key set could not be fetched
KeyFetchFailed ==
    /\ ver.done
    /\ ~ver.ok
    /\ \/ impl = "cognito_module" /\ ver.cause = "fetch"
       \/ impl = "runtime" /\ ver.cause = "keyfunc" /\ tok.kid \in ver.docKids

\* C13: when verification fails because the key set could not be fetched, the
\* error returned is of a kind of its own, distinguishable from the error
\* returned for a bad signature.
C13_KeyFetchFailureKind ==
    KeyFetchFailed => ver.code # SignatureErrorCode(impl)

RuleOrder == <<"issuer", "audience", "token_use", "exp", "sub">>

\* the claim rule is violated by the token at the time of verification
RuleViolated(rule) ==
    CASE rule = "issuer"    -> tok.iss # Issuer
      [] rule = "audience"  -> ~Contains(ClaimStrings(tok.aud), Audience)
      [] rule = "token_use" -> tok.token_use # "id"
      [] rule = "exp"       -> tok.exp = NoExp \/ tok.exp <= ver.t1
      [] rule = "sub"       -> ~SubjectPresent

ViolatedRules == { i \in 1..Len(RuleOrder) : RuleViolated(RuleOrder[i]) }

FirstViolated ==
    RuleOrder[CHOOSE i \in ViolatedRules : \A j \in ViolatedRules : i <= j]

\* the error each implementation returns for a violated claim rule
RuleErrorCode(im, rule) ==
    IF im = "runtime"
    THEN CASE rule = "issuer"    -> "INVALID_ISSUER"
           [] rule = "audience"  -> "INVALID_AUDIENCE"
           [] rule = "token_use" -> "INVALID_TOKEN_USE"
           [] rule = "exp"       -> "TOKEN_EXPIRED"
           [] rule = "sub"       -> "MISSING_SUBJECT"
    ELSE rule

ClaimErrorCodes ==
    { RuleErrorCode(im, RuleOrder[i]) : im \in Impls, i \in 1..Len(RuleOrder) }

\* C14: claim checks run only after the signature has been verified, and a
\* validly signed token that violates several claim rules (here: with a
\* single-valued audience and an exp claim, the first violated rule being one
\* before exp) is rejected with the error of the first violated rule in the
\* order issuer, audience, token_use, exp, sub.
C14_FirstViolatedRuleReported ==
    ver.done =>
        /\ ver.code \in ClaimErrorCodes => SignatureVerified
        /\ (/\ SignatureVerified
            /\ tok.aud.kind = "string"
            /\ tok.exp # NoExp
            /\ (tok.exp <= ver.t1 \/ tok.exp > ver.t2)
            /\ Cardinality(ViolatedRules) >= 2
            /\ FirstViolated # "exp")
              => (~ver.ok /\ ver.code = RuleErrorCode(impl, FirstViolated))

OnlyViolation(rule) ==
    \A i \in 1..Len(RuleOrder) : RuleViolated(RuleOrder[i]) <=> RuleOrder[i] = rule

\* C15: a validly signed token whose only violation is token_use = "access"
\* fails with the wrong-token-type error, and one whose only violation is an
\* exp in the past fails with the token-expired error, each different from
\* the error returned for an invalid (forged) token (runtime).
C15_TokenTypeAndExpiryErrors ==
    (ver.done /\ impl = "runtime" /\ SignatureVerified) =>
        /\ (OnlyViolation("token_use") /\ tok.token_use = "access"
              /\ tok.exp > ver.t2)
              => /\ ~ver.ok
                 /\ ver.code = RuleErrorCode(impl, "token_use")
                 /\ ver.code # SignatureErrorCode(impl)
        /\ (OnlyViolation("exp") /\ tok.exp # NoExp /\ tok.exp < ver.t1)
              => /\ ~ver.ok
                 /\ ver.code = RuleErrorCode(impl, "exp")
                 /\ ver.code # SignatureErrorCode(impl)

\* C16: a token whose header algorithm is not the expected RSA signing
\* algorithm ("none" and symmetric algorithms included) is rejected, and it is
\* rejected before the key store is consulted: no key lookup and no network
\* fetch is made for it.
C16_WrongAlgRejectedBeforeKeyLookup ==
    (ver.done /\ tok.alg # "RS256") =>
        /\ ~ver.ok
        /\ ~ver.getKey
        /\ ver.fetches = 0

----------------------------------------------------------------------------
\* Wallet provisioning inside the login and link handlers

\* the handler reached ensureWallet (so the token verified and the account
\* was authenticated or linked) and ensureWallet returned an error
WalletStepFailed == rpc.done /\ rpc.walletErr \notin {NotRun, "none"}

\* C17: when wallet provisioning fails inside a login or link whose token
\* verified and whose authenticate/link step succeeded, the RPC still
\* succeeds: login returns the session token, link returns success, and the
\* response carries no wallet data.
C17_WalletFailureDoesNotFailRpc ==
    WalletStepFailed =>
        /\ rpc.ok
        /\ rpc.out.wallet = <<>>
        /\ rpc.kind = "login" => rpc.out.token # <<>>

----------------------------------------------------------------------------
\* Signing and sending a transaction (rpc_sign_and_send)

\* Numeric request fields are strings; a string is modelled as the sequence of
\* its characters, over the alphabet of HexDigits, "x", "b", "o", "+" and "-".
HexDigits ==
    <<"0", "1", "2", "3", "4", "5", "6", "7", "8", "9", "a", "b", "c", "d", "e", "f">>

\* larger than every digit of every base
NotADigit == Len(HexDigits)

\* the value of a character as a digit, NotADigit when it is none
DigitVal(c) ==
    IF \E i \in 1..Len(HexDigits) : HexDigits[i] = c
    THEN (CHOOSE i \in 1..Len(HexDigits) : HexDigits[i] = c) - 1
    ELSE NotADigit

\* A big.Int is a sign and a magnitude of any size; the magnitude is kept as
\* its limbs in base LimbBase, lowest first, with no zero limb on top (zero
\* has none).  neg is never set on zero.
LimbBase == 2^16

BigInt(neg, abs) == [neg |-> neg /\ abs # <<>>, abs |-> abs]

BigZero == BigInt(FALSE, <<>>)

\* limbs * m + carry, for small m and carry
RECURSIVE MulAdd(_, _, _)
MulAdd(limbs, m, carry) ==
    IF limbs = <<>> THEN (IF carry = 0 THEN <<>> ELSE <<carry>>)
    ELSE LET v == limbs[1] * m + carry IN
         <<v % LimbBase>> \o MulAdd(Tail(limbs), m, v \div LimbBase)

\* the magnitude that the digits ds denote in the base
RECURSIVE DigitsValue(_, _)
DigitsValue(ds, base) ==
    IF ds = <<>> THEN <<>>
    ELSE MulAdd(DigitsValue(SubSeq(ds, 1, Len(ds) - 1), base), base,
                DigitVal(ds[Len(ds)]))

ParsedInt(ok, val) == [ok |-> ok, val |-> val]

\* new(big.Int).SetString(s, 0): an optional sign, then a base chosen by the
\* prefix (0x: 16, 0b: 2, 0o: 8, a leading 0: 8, none: 10), then digits of
\* that base up to the end of the string
SetString(s) ==
    LET signed == Len(s) > 0 /\ s[1] \in {"+", "-"}
        neg == Len(s) > 0 /\ s[1] = "-"
        body == IF signed THEN Tail(s) ELSE s
        lettered == Len(body) >= 2 /\ body[1] = "0" /\ body[2] \in {"x", "b", "o"}
        octal == ~lettered /\ Len(body) >= 1 /\ body[1] = "0"
        base == IF lettered
                THEN (IF body[2] = "x" THEN 16 ELSE IF body[2] = "b" THEN 2 ELSE 8)
                ELSE IF octal THEN 8 ELSE 10
        ds == IF lettered THEN SubSeq(body, 3, Len(body))
              ELSE IF octal THEN Tail(body) ELSE body
        valid == /\ ds # <<>> \/ octal
                 /\ \A i \in 1..Len(ds) : DigitVal(ds[i]) < base
        mag == DigitsValue(ds, base)
    IN
    IF valid THEN ParsedInt(TRUE, BigInt(neg, mag))
    ELSE ParsedInt(FALSE, BigZero)

\* a field the request leaves out or leaves empty stays new(big.Int), zero
ParseField(s) == IF s = <<>> THEN ParsedInt(TRUE, BigZero) ELSE SetString(s)

\* a magnitude without its zero limbs on top
RECURSIVE Normalized(_)
Normalized(limbs) ==
    IF limbs # <<>> /\ limbs[Len(limbs)] = 0
    THEN Normalized(SubSeq(limbs, 1, Len(limbs) - 1))
    ELSE limbs

\* the limbs that make up 64 bits
Uint64Limbs == 64 \div 16

\* big.Int.Uint64: the low 64 bits of the magnitude, whatever the sign and
\* the size
Uint64(x) ==
    Normalized(SubSeq(x.abs, 1, IF Len(x.abs) < Uint64Limbs THEN Len(x.abs)
                                ELSE Uint64Limbs))

NumericFields == {"valueWei", "gasLimit", "maxFeePerGasWei", "maxPriorityFeePerGasWei"}

\* "", "7", "0x10", "-5" and "1e9"
NumLiterals ==
    { <<>>, <<"7">>, <<"0", "x", "1", "0">>, <<"-", "5">>, <<"1", "e", "9">> }

\* "0x10000000000000007": 2^64 + 7
OverflowLiteral ==
    <<"0", "x", "1">> \o [i \in 1..15 |-> "0"] \o <<"7">>

\* common.AddressLength
AddressLength == 20

\* has0xPrefix
Has0xPrefix(s) == Len(s) >= 2 /\ s[1] = "0" /\ s[2] \in {"x", "X"}

IsHexCharacter(c) == DigitVal(c) < 16

\* common.Hex2Bytes: h, _ := hex.DecodeString(str) keeps the bytes decoded
\* before the first character that is no hex digit and drops the error
RECURSIVE Hex2Bytes(_)
Hex2Bytes(str) ==
    IF Len(str) >= 2 /\ IsHexCharacter(str[1]) /\ IsHexCharacter(str[2])
    THEN <<DigitVal(str[1]) * 16 + DigitVal(str[2])>>
            \o Hex2Bytes(SubSeq(str, 3, Len(str)))
    ELSE <<>>

\* common.FromHex: the prefix is dropped, an odd string gets a leading 0
FromHex(s) ==
    LET body == IF Has0xPrefix(s) THEN SubSeq(s, 3, Len(s)) ELSE s IN
    Hex2Bytes(IF Len(body) % 2 = 1 THEN <<"0">> \o body ELSE body)

\* common.BytesToAddress: the last AddressLength bytes, zeros in front of
\* fewer
BytesToAddress(b) ==
    IF Len(b) > AddressLength
    THEN SubSeq(b, Len(b) - AddressLength + 1, Len(b))
    ELSE [i \in 1..(AddressLength - Len(b)) |-> 0] \o b

\* common.HexToAddress: never fails, whatever the string
HexToAddress(s) == BytesToAddress(FromHex(s))

\* common.IsHexAddress: an optional prefix, then 2 * AddressLength hex digits
IsHexAddress(s) ==
    LET body == IF Has0xPrefix(s) THEN SubSeq(s, 3, Len(s)) ELSE s IN
    /\ Len(body) = 2 * AddressLength
    /\ \A i \in 1..Len(body) : IsHexCharacter(body[i])

\* "0xabab..ab" with 40 digits
GoodAddress ==
    <<"0", "x">> \o [i \in 1..(2 * AddressLength) |-> IF i % 2 = 1 THEN "a" ELSE "b"]

\* "", a well-formed address and "0xabc"
ToAddresses == { <<>>, GoodAddress, <<"0", "x", "a", "b", "c">> }

EVMTransactionRequests ==
    [to : ToAddresses, valueWei : NumLiterals,
     gasLimit : NumLiterals \cup {OverflowLiteral},
     maxFeePerGasWei : NumLiterals, maxPriorityFeePerGasWei : NumLiterals]

chainID == 1

\* types.NewTx(&types.DynamicFeeTx{...}) for a request whose fields parsed;
\* the requests here carry nonce 0 and no data
DynamicFeeTx(request) ==
    [ChainID |-> chainID,
     Nonce |-> 0,
     GasTipCap |-> ParseField(request.maxPriorityFeePerGasWei).val,
     GasFeeCap |-> ParseField(request.maxFeePerGasWei).val,
     Gas |-> Uint64(ParseField(request.gasLimit).val),
     To |-> HexToAddress(request.to),
     Value |-> ParseField(request.valueWei).val,
     Data |-> <<>>]

\* txSigner.Hash(tx), the hash that is signed
SigningHash(tx) == <<"sighash", tx>>

\* tx.WithSignature(txSigner, signature)
WithSignature(tx, signature) == [tx |-> tx, signature |-> signature]

\* signedTx.Hash()
TxHash(signedTx) == <<"txhash", signedTx>>

\* MockKMSSigner.derivePrivateKey
derivePrivateKey(externalID, cfg) == Sha256(<<cfg.masterKey, ":", externalID>>)

\* A faulty signer: the derived key itself is handed back as the signature.
Sign_LeakKey(externalID, hash, cfg) ==
    [err |-> FALSE, signature |-> derivePrivateKey(externalID, cfg)]

\* MockKMSSigner.Sign: the key is derived from the master key and the id
Sign(externalID, hash, cfg) ==
    LET seed == derivePrivateKey(externalID, cfg) IN
    IF seed \in InvalidScalars
    THEN [err |-> TRUE, signature |-> <<>>]
    ELSE [err |-> FALSE, signature |-> <<"sig", seed, hash>>]

\* MockKMSSigner.GetPublicKey
GetPublicKey(externalID, cfg) ==
    LET privateKey == derivePrivateKey(externalID, cfg) IN
    IF privateKey \in InvalidScalars
    THEN [err |-> TRUE, key |-> <<>>]
    ELSE [err |-> FALSE, key |-> <<"FromECDSAPub", privateKey>>]

SignCall(externalID, hash) == [op |-> "Sign", externalID |-> externalID, hash |-> hash]

SignResult(ok, err, txHash, trace) ==
    [ok |-> ok, err |-> err, txHash |-> txHash, trace |-> trace]

\* signAndSendEVMTransaction
signAndSendEVMTransaction(externalID, request, cfg) ==
    LET tx == DynamicFeeTx(request)
        h == SigningHash(tx)
        sg == Sign(externalID, h, cfg)
        call == <<SignCall(externalID, h)>>
    IN
    IF request.to = <<>>
    THEN SignResult(FALSE, Err("missing 'to' address", "none"), <<>>, <<>>)
    ELSE IF ~ParseField(request.valueWei).ok
    THEN SignResult(FALSE, Err("invalid value", "none"), <<>>, <<>>)
    ELSE IF ~ParseField(request.gasLimit).ok
    THEN SignResult(FALSE, Err("invalid gas limit", "none"), <<>>, <<>>)
    ELSE IF ~ParseField(request.maxFeePerGasWei).ok
    THEN SignResult(FALSE, Err("invalid max fee per gas", "none"), <<>>, <<>>)
    ELSE IF ~ParseField(request.maxPriorityFeePerGasWei).ok
    THEN SignResult(FALSE, Err("invalid max priority fee per gas", "none"), <<>>, <<>>)
    ELSE IF sg.err
    THEN SignResult(FALSE, Err("failed to sign transaction", "KMS signing failed"),
                    <<>>, call)
    ELSE SignResult(TRUE, Err("none", "none"),
                    TxHash(WithSignature(tx, sg.signature)), call)

\* custom ids an account may carry; "" is an account without one
CustomIds == ExternalIDs \cup {"", "cognito:", "device:1234"}

\* A faulty test: the prefix alone is enough.
IsCognitoID_PrefixOnly(id) ==
    /\ id # ""
    /\ \E rest \in Subjects \cup {""} : id = "cognito:" \o rest

\* account.CustomId != "" && len(account.CustomId) > 8 &&
\* account.CustomId[:8] == "cognito:"
IsCognitoID(id) ==
    /\ id # ""
    /\ Len(id) > 8
    /\ \E rest \in Subjects \cup {""} : id = "cognito:" \o rest

\* nk.AccountGetId(ctx, userID).CustomId
CustomIdOf(lk, userID) ==
    IF \E id \in CustomIds : <<userID, id>> \in lk
    THEN CHOOSE id \in CustomIds : <<userID, id>> \in lk
    ELSE ""

SignInputs ==
    [payload : {"bad json", "json"}, request : EVMTransactionRequests,
     accountOk : BOOLEAN]

\* a call of a collaborator, as the handlers' traces record it
Call(op) == [op |-> op]

\* runtime rpcSignAndSend
rpcSignAndSend(in, userID, lk, cfg) ==
    LET externalID == CustomIdOf(lk, userID)
        r == signAndSendEVMTransaction(externalID, in.request, cfg)
        A == <<Call("AccountGetId")>>
    IN
    IF ~cfg.walletEnabled
    THEN SignResult(FALSE, Err("WALLET_NOT_ENABLED", "none"), <<>>, <<>>)
    ELSE IF userID = ""
    THEN SignResult(FALSE, Err("UNAUTHORIZED", "none"), <<>>, <<>>)
    ELSE IF ~in.accountOk
    THEN SignResult(FALSE, Err("AccountGetId", "nakama"), <<>>, A)
    ELSE IF ~IsCognitoID(externalID)
    THEN SignResult(FALSE, Err("AUTH_FAILED", "none"), <<>>, A)
    ELSE IF in.payload = "bad json"
    THEN SignResult(FALSE, Err("INVALID_PAYLOAD", "json"), <<>>, A)
    ELSE [r EXCEPT !.trace = A \o @]

\* cognito_module rpcSignAndSend at time t: nothing is built or signed, the
\* hash returned is made from the clock
cm_rpcSignAndSend(in, userID, lk, t) ==
    LET externalID == CustomIdOf(lk, userID)
        A == <<Call("AccountGetId")>>
    IN
    IF userID = ""
    THEN SignResult(FALSE, Err("user must be authenticated", "none"), <<>>, <<>>)
    ELSE IF in.payload = "bad json"
    THEN SignResult(FALSE, Err("invalid request payload", "json"), <<>>, <<>>)
    ELSE IF in.request.to = <<>>
    THEN SignResult(FALSE, Err("'to' address is required", "none"), <<>>, <<>>)
    ELSE IF ~in.accountOk
    THEN SignResult(FALSE, Err("failed to get account", "nakama"), <<>>, A)
    ELSE IF ~IsCognitoID(externalID)
    THEN SignResult(FALSE, Err("no Cognito account linked", "none"), <<>>, A)
    ELSE SignResult(TRUE, Err("none", "none"), <<"UnixNano", t>>, A)

\* what a finished rpc_sign_and_send leaves behind
SignCommit(r, in, userID) ==
    rpc' = [done |-> TRUE, kind |-> "sign", ok |-> r.ok, err |-> r.err,
            trace |-> r.trace, txHash |-> r.txHash, payload |-> in.payload,
            request |-> in.request, accountOk |-> in.accountOk,
            userID |-> userID, storeBefore |-> store]

\* A faulty lookup: a record is made up and stored when none is found.
getWallet_Fabricating(st, externalID, readOk) ==
    LET objects == StorageRead(st, externalID)
        w == Wallet("evm", <<"fabricated", externalID>>, 0)
    IN
    IF Len(objects) = 0
    THEN WalletResult(<<w>>, "none",
                      StorageWrite(st, WalletWriteOp("runtime", externalID, w)),
                      <<Call("StorageRead"), Call("StorageWrite")>>)
    ELSE WalletResult(<<objects[1]>>, "none", st, <<Call("StorageRead")>>)

\* runtime getWallet
getWallet(st, externalID, readOk) ==
    LET objects == StorageRead(st, externalID) IN
    IF ~readOk
    THEN WalletResult(<<>>, "read", st, <<Call("StorageRead")>>)
    ELSE IF Len(objects) = 0
    THEN WalletResult(<<>>, "WALLET_NOT_FOUND", st, <<Call("StorageRead")>>)
    ELSE WalletResult(<<objects[1]>>, "none", st, <<Call("StorageRead")>>)

\* cognito_module readWallet
readWallet(st, externalID, readOk) ==
    LET objects == StorageRead(st, externalID) IN
    IF ~readOk
    THEN WalletResult(<<>>, "storage read failed", st, <<Call("StorageRead")>>)
    ELSE IF Len(objects) = 0
    THEN WalletResult(<<>>, "wallet not found", st, <<Call("StorageRead")>>)
    ELSE WalletResult(<<objects[1]>>, "none", st, <<Call("StorageRead")>>)

GetInputs == [accountOk : BOOLEAN, readOk : BOOLEAN]

\* what rpc_get_wallet returns, the lookup's own error and the store it leaves
GetResult(ok, err, wallet, trace, walletErr, st) ==
    [ok |-> ok, err |-> err, wallet |-> wallet, trace |-> trace,
     walletErr |-> walletErr, store |-> st]

\* the address and chain of the record, as the response carries them
WalletResponse(rec) == <<[address |-> rec[1].address, chain |-> rec[1].chain]>>

\* runtime rpcGetWallet
rpcGetWallet(in, userID, lk, st, cfg) ==
    LET externalID == CustomIdOf(lk, userID)
        w == getWallet(st, externalID, in.readOk)
        A == <<Call("AccountGetId")>>
    IN
    IF ~cfg.walletEnabled
    THEN GetResult(FALSE, Err("WALLET_NOT_ENABLED", "none"), <<>>, <<>>, NotRun, st)
    ELSE IF userID = ""
    THEN GetResult(FALSE, Err("UNAUTHORIZED", "none"), <<>>, <<>>, NotRun, st)
    ELSE IF ~in.accountOk
    THEN GetResult(FALSE, Err("AccountGetId", "nakama"), <<>>, A, NotRun, st)
    ELSE IF ~IsCognitoID(externalID)
    THEN GetResult(FALSE, Err("WALLET_NOT_FOUND", "none"), <<>>, A, NotRun, st)
    ELSE IF w.err # "none"
    THEN GetResult(FALSE, Err(w.err, "none"), <<>>, A \o w.events, w.err, w.store)
    ELSE GetResult(TRUE, Err("none", "none"), WalletResponse(w.rec),
                   A \o w.events, w.err, w.store)

\* cognito_module rpcGetWallet
cm_rpcGetWallet(in, userID, lk, st) ==
    LET externalID == CustomIdOf(lk, userID)
        w == readWallet(st, externalID, in.readOk)
        A == <<Call("AccountGetId")>>
    IN
    IF userID = ""
    THEN GetResult(FALSE, Err("user must be authenticated", "none"), <<>>, <<>>,
                   NotRun, st)
    ELSE IF ~in.accountOk
    THEN GetResult(FALSE, Err("failed to get account", "nakama"), <<>>, A,
                   NotRun, st)
    ELSE IF ~IsCognitoID(externalID)
    THEN GetResult(FALSE, Err("no Cognito account linked", "none"), <<>>, A,
                   NotRun, st)
    ELSE IF w.err # "none"
    THEN GetResult(FALSE, Err("failed to read wallet", w.err), <<>>,
                   A \o w.events, w.err, w.store)
    ELSE GetResult(TRUE, Err("none", "none"), WalletResponse(w.rec),
                   A \o w.events, w.err, w.store)

\* what a finished rpc_get_wallet leaves behind
GetCommit(r, in, userID) ==
    /\ rpc' = [done |-> TRUE, kind |-> "get_wallet", ok |-> r.ok, err |-> r.err,
               trace |-> r.trace, wallet |-> r.wallet, walletErr |-> r.walletErr,
               accountOk |-> in.accountOk, readOk |-> in.readOk,
               userID |-> userID, storeBefore |-> store]
    /\ store' = r.store

GetWalletRuntime ==
    /\ ~rpc.done
    /\ impl = "runtime"
    /\ \E in \in GetInputs, userID \in CtxUsers :
       \E r \in {rpcGetWallet(in, userID, linked, store, config)} :
         GetCommit(r, in, userID)
    /\ UNCHANGED <<now, docIdx, cache, lastFetch, verVars, gkVars, config, wf,
                   writes, calls, readFailed, seen, accounts, linked>>

GetWalletCognito ==
    /\ ~rpc.done
    /\ impl = "cognito_module"
    /\ \E in \in GetInputs, userID \in CtxUsers :
       \E r \in {cm_rpcGetWallet(in, userID, linked, store)} :
         GetCommit(r, in, userID)
    /\ UNCHANGED <<now, docIdx, cache, lastFetch, verVars, gkVars, config, wf,
                   writes, calls, readFailed, seen, accounts, linked>>

\* the store an earlier login of user-42 left behind
ProvisionedStore(im, cfg) ==
    LET id == ExternalID("user-42") IN
    StorageWrite(EmptyStore,
                 WalletWriteOp(im, id, Wallet(cfg.chain, Derive(im, id, cfg).address,
                                              CreatedAt(im, 0))))

\* InitModule: the RPCs it registers.  runtime registers rpc_sign_and_send
\* only when the wallet is enabled; cognito_module reads no such setting and
\* registers all four.
RegisteredRpcs(im, cfg) ==
    {"rpc_cognito_login", "rpc_link_cognito", "rpc_get_wallet"}
        \cup IF im = "cognito_module" \/ cfg.walletEnabled
             THEN {"rpc_sign_and_send"} ELSE {}

SignAndSendRuntime ==
    /\ ~rpc.done
    /\ impl = "runtime"
    /\ "rpc_sign_and_send" \in RegisteredRpcs(impl, config)
    /\ \E in \in SignInputs, userID \in CtxUsers :
       \E r \in {rpcSignAndSend(in, userID, linked, config)} :
         SignCommit(r, in, userID)
    /\ UNCHANGED <<now, docIdx, cache, lastFetch, verVars, gkVars, walletVars,
                   accounts, linked>>

SignAndSendCognito ==
    /\ ~rpc.done
    /\ impl = "cognito_module"
    /\ \E in \in SignInputs, userID \in CtxUsers :
       \E r \in {cm_rpcSignAndSend(in, userID, linked, now)} :
         SignCommit(r, in, userID)
    /\ UNCHANGED <<now, docIdx, cache, lastFetch, verVars, gkVars, walletVars,
                   accounts, linked>>

InitSign ==
    /\ now = 0
    /\ docIdx = 1
    /\ cache = EmptyCache
    /\ lastFetch = Never
    /\ tok = GoodToken
    /\ impl \in Impls
    /\ ver = NoVer
    /\ gk = [p \in Procs |-> IdleFrame]
    /\ cacheWriter = {}
    /\ config \in { cfg \in Configs : cfg.chain = "evm" }
    /\ store \in IF impl = "cognito_module" \/ config.walletEnabled
                 THEN {EmptyStore, ProvisionedStore(impl, config)}
                 ELSE {EmptyStore}
    /\ wf = [p \in Procs |-> IdleWallet]
    /\ writes = [id \in ExternalIDs |-> 0]
    /\ calls = 0
    /\ readFailed = FALSE
    /\ seen = [id \in ExternalIDs |-> {}]
    /\ accounts = {}
    /\ linked \in { {<<"user-a", id>>} : id \in CustomIds }
    /\ rpc = NoRpc

NextSign ==
    \/ Tick
    \/ SignAndSendRuntime
    \/ SignAndSendCognito
    \/ GetWalletRuntime
    \/ GetWalletCognito

SpecSign == InitSign /\ [][NextSign]_vars

----------------------------------------------------------------------------
\* Properties of rpc_sign_and_send

\* the request came from a session user whose account carries a Cognito
\* identity, was readable and names a recipient, with the wallet feature on
SignRequestWellFormed ==
    /\ rpc.done /\ rpc.kind = "sign"
    /\ config.walletEnabled
    /\ rpc.userID # "" /\ rpc.accountOk
    /\ IsCognitoID(CustomIdOf(linked, rpc.userID))
    /\ rpc.payload = "json"
    /\ rpc.request.to # <<>>

Unparseable(f) == rpc.request[f] # <<>> /\ ~SetString(rpc.request[f]).ok

Negative(f) == ParseField(rpc.request[f]).ok /\ ParseField(rpc.request[f]).val.neg

SignCalls == { i \in 1..Len(rpc.trace) : rpc.trace[i].op = "Sign" }

\* the error codes of the InvalidPayload kind
InvalidPayloadCodes == {"INVALID_PAYLOAD", "invalid request payload"}

\* C18: if valueWei, gasLimit, maxFeePerGasWei or maxPriorityFeePerGasWei is
\* present in a sign-and-send request but is not a parseable number, the
\* request fails with an InvalidPayload error and Sign is never invoked.
C18_UnparseableNumberRejected ==
    (SignRequestWellFormed /\ \E f \in NumericFields : Unparseable(f)) =>
        /\ ~rpc.ok
        /\ rpc.err.code \in InvalidPayloadCodes
        /\ SignCalls = {}

\* C19: a sign-and-send request with a negative valueWei, gasLimit,
\* maxFeePerGasWei or maxPriorityFeePerGasWei (and every numeric field
\* parseable) is rejected with an InvalidPayload error before Sign is invoked.
C19_NegativeNumberRejected ==
    (/\ SignRequestWellFormed
     /\ \A f \in NumericFields : ~Unparseable(f)
     /\ \E f \in NumericFields : Negative(f)) =>
        /\ ~rpc.ok
        /\ rpc.err.code \in InvalidPayloadCodes
        /\ SignCalls = {}

\* C20: every successful sign-and-send invoked Sign exactly once, with the
\* caller's external identity and the signing hash of the transaction built
\* from the request, and the txHash it returned is the hash of that
\* transaction carrying the signature Sign gave.
C20_SuccessSignedOnce ==
    (rpc.done /\ rpc.kind = "sign" /\ rpc.ok) =>
        LET id == CustomIdOf(linked, rpc.userID)
            tx == DynamicFeeTx(rpc.request)
        IN
        /\ Cardinality(SignCalls) = 1
        /\ \A i \in SignCalls :
             /\ rpc.trace[i].externalID = id
             /\ rpc.trace[i].hash = SigningHash(tx)
        /\ rpc.txHash =
             TxHash(WithSignature(tx, Sign(id, SigningHash(tx), config).signature))

\* a Sign call of the request that returned a signature
SignSucceeded ==
    \E i \in SignCalls :
        ~Sign(rpc.trace[i].externalID, rpc.trace[i].hash, config).err

\* C21: a sign-and-send that fails (validation, signing or signature
\* attachment) returns an error and no transaction hash; a hash is returned
\* only when the transaction was signed and the signature attached.
C21_HashOnlyAfterSigning ==
    (rpc.done /\ rpc.kind = "sign") =>
        /\ ~rpc.ok => (rpc.err.code # "none" /\ rpc.txHash = <<>>)
        /\ rpc.txHash # <<>> => (rpc.ok /\ SignSucceeded)

----------------------------------------------------------------------------
\* Further properties of the wallet store

\* C25: every wallet record in storage was written in collection "wallet"
\* under a key equal to the external identity, readable by its owner only
\* (permissionRead 1) and writable by no client (permissionWrite 0).
C25_WalletWritePermissions ==
    \A id \in DOMAIN store :
      \A i \in 1..Len(store[id]) :
        /\ store[id][i].collection = "wallet"
        /\ store[id][i].key = id
        /\ store[id][i].permissionRead = 1
        /\ store[id][i].permissionWrite = 0

----------------------------------------------------------------------------
\* Properties of the RPCs that need a session

UnauthorizedCodes == {"UNAUTHORIZED", "user must be authenticated"}

\* C22: rpc_get_wallet and rpc_sign_and_send invoked without a user session
\* fail with the Unauthorized error before any account lookup, storage access
\* or signing: no collaborator is called and the store is left as it was.
\* (rpc_link_cognito makes the same test first, see rpcLinkCognito.)
C22_NoSessionUnauthorized ==
    (rpc.done /\ rpc.kind \in {"sign", "get_wallet"} /\ rpc.userID = "") =>
        /\ ~rpc.ok
        /\ rpc.err.code \in UnauthorizedCodes
        /\ rpc.trace = <<>>
        /\ store = rpc.storeBefore

WalletNotFoundCodes == {"WALLET_NOT_FOUND", "wallet not found"}

\* C24: getWallet never writes to storage and never derives an address: the
\* only collaborator calls of a wallet lookup are the account lookup and the
\* storage read, the wallet store is the same after the call as before, and
\* for an identity with no stored record (and a storage read that works) the
\* lookup answers WalletNotFound and no wallet is returned.
C24_GetWalletReadOnly ==
    (rpc.done /\ rpc.kind = "get_wallet") =>
        /\ store = rpc.storeBefore
        /\ \A i \in 1..Len(rpc.trace) :
             rpc.trace[i].op \in {"AccountGetId", "StorageRead"}
        /\ (/\ rpc.walletErr # NotRun
            /\ rpc.readOk
            /\ StorageRead(rpc.storeBefore, CustomIdOf(linked, rpc.userID)) = <<>>)
           => (/\ rpc.walletErr \in WalletNotFoundCodes
               /\ ~rpc.ok
               /\ rpc.wallet = <<>>)

\* a lookup reached storage for an identity without a record
C24_Witness ==
    /\ rpc.done /\ rpc.kind = "get_wallet"
    /\ rpc.walletErr \in WalletNotFoundCodes
    /\ rpc.readOk
    /\ IsCognitoID(CustomIdOf(linked, rpc.userID))
    /\ store[CustomIdOf(linked, rpc.userID)] = <<>>

----------------------------------------------------------------------------
\* Properties of the address derivation

\* the chains each implementation's derivation serves
SupportedChains(im) == IF im = "runtime" THEN {"evm"} ELSE {"evm", "solana"}

UnsupportedChainCodes == {"INVALID_CHAIN", "unsupported chain"}

\* the lookup each implementation makes for a stored wallet
Lookup(im, id) ==
    IF im = "runtime" THEN getWallet(store, id, TRUE) ELSE readWallet(store, id, TRUE)

\* C23: when the configured chain is not a supported chain, every ensureWallet
\* call fails, a call that gets as far as the derivation fails with the
\* UnsupportedChain error, no wallet record is written, and a wallet lookup
\* for any identity afterwards finds no record.
C23_UnsupportedChainWritesNothing ==
    config.chain \notin SupportedChains(impl) =>
        /\ \A p \in Procs :
             wf[p].pc = "done" =>
               /\ wf[p].err # "none"
               /\ wf[p].rec = <<>>
               /\ ~wf[p].wrote
               /\ wf[p].derived => wf[p].err \in UnsupportedChainCodes
        /\ \A id \in ExternalIDs :
             /\ writes[id] = 0
             /\ Lookup(impl, id).err \in WalletNotFoundCodes

\* an ensureWallet call reached the derivation for an unsupported chain
C23_Witness ==
    /\ config.chain \notin SupportedChains(impl)
    /\ \E p \in Procs :
         /\ wf[p].pc = "done"
         /\ wf[p].derived
         /\ wf[p].err \in UnsupportedChainCodes

\* the frames holding a record their own call derived
Derived == { p \in Procs : wf[p].derived /\ wf[p].rec # <<>> }

----------------------------------------------------------------------------
\* Properties of the login response

\* C26: a successful rpc_cognito_login returns in its token field a session
\* token issued for the account that AuthenticateCustom resolved for the
\* external identity cognito:<sub>.
C26_LoginReturnsSessionToken ==
    (rpc.done /\ rpc.kind = "login" /\ rpc.ok) =>
        LET a == AuthenticateCustom(rpc.accountsBefore, ExternalID(ver.sub),
                                    TRUE, TRUE)
        IN rpc.out.token = AuthenticateTokenGenerate(a.userID, a.username)

----------------------------------------------------------------------------
\* User attributes extracted from a token's optional claims

\* a claim the payload does not have, and one it has with value v
Missing == <<>>

Claim(v) == <<v>>

\* the optional claims as the token's JSON payload carries them
OptionalClaims ==
    [ email          : {Missing, Claim(""), Claim("ann@example.com")},
      email_verified : {Missing, Claim(TRUE), Claim(FALSE)},
      name           : {Missing, Claim("Ann")},
      picture        : {Missing, Claim("https://img/ann.png")},
      groups         : {Missing, Claim(<<>>), Claim(<<"admin">>),
                        Claim(<<"admin", "dev">>)},
      identities     : {Missing, Claim(<<>>), Claim(<<"Google">>)} ]

\* the entries of a Go map: a function whose domain is the keys present
EmptyMap == [k \in {} |-> ""]

Put(m, k, v) == [x \in DOMAIN m \cup {k} |-> IF x = k THEN v ELSE m[x]]

\* runtime CognitoTokenClaims: decoding the payload into the struct leaves
\* the zero value in the field of a claim the payload does not have
CognitoTokenClaims(payload) ==
    [ Email         |-> IF payload.email = Missing THEN "" ELSE payload.email[1],
      EmailVerified |-> IF payload.email_verified = Missing THEN FALSE
                        ELSE payload.email_verified[1],
      Name          |-> IF payload.name = Missing THEN "" ELSE payload.name[1],
      Picture       |-> IF payload.picture = Missing THEN "" ELSE payload.picture[1],
      CognitoGroups |-> IF payload.groups = Missing THEN <<>> ELSE payload.groups[1] ]

\* the groups joined with commas
RECURSIVE JoinGroups(_)
JoinGroups(groups) ==
    IF Len(groups) = 1 THEN groups[1]
    ELSE groups[1] \o "," \o JoinGroups(Tail(groups))

\* runtime ExtractUserVars
ExtractUserVars(claims) ==
    LET v1 == IF claims.Email # "" THEN Put(EmptyMap, "email", claims.Email)
              ELSE EmptyMap
        v2 == Put(v1, "email_verified",
                  IF claims.EmailVerified THEN "true" ELSE "false")
        v3 == IF claims.Name # "" THEN Put(v2, "name", claims.Name) ELSE v2
        v4 == IF claims.Picture # "" THEN Put(v3, "picture", claims.Picture)
              ELSE v3
        v5 == Put(v4, "provider", "cognito")
    IN IF Len(claims.CognitoGroups) > 0
       THEN Put(v5, "cognito_groups", JoinGroups(claims.CognitoGroups))
       ELSE v5

\* cognito_module updateUserMetadata: the metadata it builds from the claims
\* map, where a claim the payload does not have fails the type assertion
updateUserMetadata(payload) ==
    LET m1 == IF payload.email # Missing
              THEN Put(EmptyMap, "email", payload.email[1]) ELSE EmptyMap
        m2 == IF payload.email_verified # Missing
              THEN Put(m1, "email_verified", payload.email_verified[1]) ELSE m1
        m3 == IF payload.name # Missing THEN Put(m2, "name", payload.name[1])
              ELSE m2
        m4 == IF payload.picture # Missing
              THEN Put(m3, "picture", payload.picture[1]) ELSE m3
    IN IF payload.identities # Missing /\ Len(payload.identities[1]) > 0
       THEN Put(m4, "provider", payload.identities[1][1])
       ELSE m4

\* rpcCognitoLogin's extraction step in the runtime build
ExtractRuntime ==
    /\ impl = "runtime"
    /\ ~ver.done
    /\ ver' = [done |-> TRUE,
               userVars |-> ExtractUserVars(CognitoTokenClaims(tok))]
    /\ UNCHANGED <<now, docIdx, cache, lastFetch, tok, impl, gk, cacheWriter,
                   config, store, wf, writes, calls, readFailed, seen,
                   accounts, linked, rpc>>

\* rpcCognitoLogin's metadata step in cognito_module
ExtractCognito ==
    /\ impl = "cognito_module"
    /\ ~ver.done
    /\ ver' = [done |-> TRUE, userVars |-> updateUserMetadata(tok)]
    /\ UNCHANGED <<now, docIdx, cache, lastFetch, tok, impl, gk, cacheWriter,
                   config, store, wf, writes, calls, readFailed, seen,
                   accounts, linked, rpc>>

InitVars ==
    /\ now = 0
    /\ docIdx = 1
    /\ cache = EmptyCache
    /\ lastFetch = Never
    /\ tok \in OptionalClaims
    /\ impl \in Impls
    /\ ver = NoVer
    /\ gk = [p \in Procs |-> IdleFrame]
    /\ cacheWriter = {}
    /\ config = DefaultConfig
    /\ store = EmptyStore
    /\ wf = [p \in Procs |-> IdleWallet]
    /\ writes = [id \in ExternalIDs |-> 0]
    /\ calls = 0
    /\ readFailed = FALSE
    /\ seen = [id \in ExternalIDs |-> {}]
    /\ accounts = {}
    /\ linked = {}
    /\ rpc = NoRpc

NextVars ==
    \/ ExtractRuntime
    \/ ExtractCognito

SpecVars == InitVars /\ [][NextVars]_vars

\* the attribute key under which each optional claim is stored
AttributeKey ==
    [ email          |-> "email",
      email_verified |-> "email_verified",
      name           |-> "name",
      picture        |-> "picture",
      groups         |-> "cognito_groups" ]

\* C29: the user attributes extracted from a token contain an entry for an
\* optional claim (email, verified flag, display name, picture, groups) only
\* when that claim is present in the token; an absent claim yields no entry
\* and no default value.
C29_AbsentClaimsOmitted ==
    ver.done =>
        \A c \in DOMAIN AttributeKey :
            AttributeKey[c] \in DOMAIN ver.userVars => tok[c] # Missing

----------------------------------------------------------------------------
\* Private key material

\* Terms built by "sig", "FromECDSAPub", "PubkeyToAddress" and "txhash" stand
\* for the results of one-way functions of their arguments; a value carries
\* key material when it is a derived private key itself.
KeyMaterialFree(v) ==
    \A id \in CustomIds : v # derivePrivateKey(id, config)

\* what a finished wallet RPC handed to its caller
ResponseFree ==
    /\ rpc.kind = "sign" => KeyMaterialFree(rpc.txHash)
    /\ (rpc.kind = "get_wallet" /\ rpc.wallet # <<>>) =>
           KeyMaterialFree(rpc.wallet[1].address)
    /\ rpc.err.code \in STRING
    /\ rpc.err.cause \in STRING

----------------------------------------------------------------------------
\* Concurrent readers of the key cache

\* C31: a GetKey call that only reads the key table is never blocked by
\* another GetKey call that is only reading; in particular a call served
\* from a fresh cache entry never waits for another call's network fetch.
\* Whenever no call is inside fetchJWKS's write-locked update, both
\* read-locked sections of every call can run, whatever the other calls do.
C31_ReadersNeverBlockReaders ==
    \A p \in Procs :
        (\A q \in Procs : gk[q].pc # "locked") =>
            /\ gk[p].pc = "idle" => ENABLED GetKeyRead(p)
            /\ gk[p].pc = "fetched" => ENABLED GetKeyReread(p)

C31_Witness ==
    \E p \in Procs : \E q \in Procs \ {p} :
        /\ gk[p].pc = "done"
        /\ gk[p].fetches = 0
        /\ gk[p].key # NoKey
        /\ gk[q].pc = "http"

----------------------------------------------------------------------------
\* The identity a transaction is signed for

\* "cognito:" followed by a non-empty subject
HasCognitoSubject(id) == \E sub \in Subjects : id = "cognito:" \o sub

\* C32: every Sign invocation made on behalf of rpc_sign_and_send uses as
\* external identity the custom id of the account of the calling session,
\* which starts with "cognito:" followed by a non-empty subject; no field of
\* the request can select another identity, and an account without such a
\* custom id gets an error with no signing.
C32_SignsForSessionIdentity ==
    (rpc.done /\ rpc.kind = "sign") =>
        LET customId == CustomIdOf(linked, rpc.userID) IN
        /\ \A i \in SignCalls :
               /\ rpc.userID # ""
               /\ rpc.trace[i].externalID = customId
               /\ HasCognitoSubject(customId)
        /\ ~HasCognitoSubject(customId) => (~rpc.ok /\ SignCalls = {})

C32_Witness ==
    /\ rpc.done
    /\ rpc.kind = "sign"
    /\ rpc.ok
    /\ \E i \in SignCalls :
           rpc.trace[i].externalID = CustomIdOf(linked, rpc.userID)

----------------------------------------------------------------------------
\* When a wallet record is written

\* C33: a wallet record is written for an external identity only within a
\* login call whose token verification and AuthenticateCustom both
\* succeeded, or within a link call whose token verification and LinkCustom
\* both succeeded, for the subject of that verified token.
C33_WalletWrittenOnlyAfterAuth ==
    (rpc.done /\ rpc.kind \in {"login", "link"} /\ store # rpc.storeBefore) =>
        LET id == ExternalID(ver.sub) IN
        /\ rpc.verifyCalled
        /\ ver.ok
        /\ rpc.kind = "login" =>
               /\ "AuthenticateCustom" \in CallsIn(rpc.trace)
               /\ id \in accounts
        /\ rpc.kind = "link" =>
               /\ "LinkCustom" \in CallsIn(rpc.trace)
               /\ \E u \in CtxUsers : <<u, id>> \in linked
        /\ \A k \in DOMAIN store : k # id => store[k] = rpc.storeBefore[k]

C33_Witness ==
    /\ rpc.done
    /\ rpc.kind = "link"
    /\ store # rpc.storeBefore
    /\ store[ExternalID(ver.sub)] # <<>>

----------------------------------------------------------------------------
\* ensureWallet and a storage read that fails

\* C34: ensureWallet writes a wallet record only after a storage read that
\* succeeded and found no record for the identity; when the storage read
\* fails, ensureWallet returns the error and leaves the store unchanged.
C34_WriteOnlyAfterCleanRead ==
    \A p \in Procs :
        /\ wf[p].wrote => (~wf[p].readErr /\ ~wf[p].existed)
        /\ wf[p].readErr =>
               /\ wf[p].pc \notin {"derive", "write"}
               /\ wf[p].pc = "done" => wf[p].err = "read"

----------------------------------------------------------------------------
\* The stored address and the signing key

\* crypto.PubkeyToAddress of the public key that the bytes returned by
\* GetPublicKey encode: the public half of the private key named in them
AddressFromPublicKey(key) ==
    IF key = <<>> THEN <<>> ELSE <<"PubkeyToAddress", key[2]>>

\* C35: the address stored in an identity's wallet record is the address of
\* the key with which the Signing Service signs for that identity: it equals
\* the address derived from GetPublicKey for the same external identity and
\* master key reference.
C35_StoredAddressIsSignerAddress ==
    \A id \in DOMAIN store : \A i \in 1..Len(store[id]) :
        store[id][i].value.address =
            AddressFromPublicKey(GetPublicKey(id, config).key)

----------------------------------------------------------------------------
\* A token without an exp claim

\* C36: a validly signed token that carries no exp claim is rejected with an
\* error: verification never crashes on it and never accepts it.
C36_MissingExpRejected ==
    (ver.done /\ SignatureVerified /\ tok.exp = NoExp) =>
        /\ ~ver.ok
        /\ ver.code # "PANIC"

----------------------------------------------------------------------------
\* The recipient of the signed transaction

\* the bytes a well-formed address string denotes
AddressBytes(s) == Hex2Bytes(SubSeq(s, Len(s) - 2 * AddressLength + 1, Len(s)))

\* C37: signAndSend invokes the Signing Service only when the request's `to`
\* denotes a well-formed 20-byte hex address, and the recipient of the signed
\* transaction is that address; a non-empty but malformed `to` is rejected
\* before signing rather than converted to some other address.
C37_SignsOnlyForWellFormedRecipient ==
    (rpc.done /\ rpc.kind = "sign") =>
        \A i \in SignCalls :
            /\ IsHexAddress(rpc.request.to)
            /\ \E tx \in {DynamicFeeTx(rpc.request)} :
                   /\ rpc.trace[i].hash = SigningHash(tx)
                   /\ tx.To = AddressBytes(rpc.request.to)

----------------------------------------------------------------------------
\* The gas limit of the signed transaction

\* C38: the gas limit of the signed transaction equals the numeric value of
\* the request's gasLimit; a gasLimit that does not fit in an unsigned 64-bit
\* integer is rejected rather than reduced modulo 2^64.  (Negative values
\* are the subject of C19 and left aside here.)
C38_GasLimitNotTruncated ==
    (rpc.done /\ rpc.kind = "sign") =>
        \A i \in SignCalls :
            \E g \in {ParseField(rpc.request.gasLimit).val},
               tx \in {DynamicFeeTx(rpc.request)} :
                /\ rpc.trace[i].hash = SigningHash(tx)
                /\ ~g.neg => tx.Gas = g.abs

----------------------------------------------------------------------------
(* The RPCs of a deployment whose wallet feature is switched off            *)

InitDisabled ==
    /\ now = 0
    /\ docIdx = 1
    /\ cache = EmptyCache
    /\ lastFetch = Never
    /\ tok \in {GoodToken, [GoodToken EXCEPT !.sig = "forged"]}
    /\ impl \in Impls
    /\ ver = NoVer
    /\ gk = [p \in Procs |-> IdleFrame]
    /\ cacheWriter = {}
    /\ config = DefaultConfig
    /\ store = EmptyStore
    /\ wf = [p \in Procs |-> IdleWallet]
    /\ writes = [id \in ExternalIDs |-> 0]
    /\ calls = 0
    /\ readFailed = FALSE
    /\ seen = [id \in ExternalIDs |-> {}]
    /\ accounts = {}
    /\ linked \in { {}, {<<"user-a", ExternalID("user-42")>>} }
    /\ rpc = NoRpc

\* rpc_sign_and_send can be called only where InitModule registered it
NextDisabled ==
    \/ Tick
    \/ LoginRuntime
    \/ LinkRuntime
    \/ GetWalletRuntime
    \/ LoginCognito
    \/ LinkCognito
    \/ GetWalletCognito
    \/ SignAndSendCognito

SpecDisabled == InitDisabled /\ [][NextDisabled]_vars

WalletDisabledCodes == {"WALLET_NOT_ENABLED"}

\* C39: while the wallet feature is disabled, no RPC reads or writes the
\* wallet store or invokes the Signing Service: login and link return
\* without wallet data, ensureWallet, rpc_get_wallet and rpc_sign_and_send
\* fail with the wallet-feature-disabled error, and rpc_sign_and_send is not
\* registered at initialization.
C39_DisabledWalletUntouched ==
    ~config.walletEnabled =>
        /\ "rpc_sign_and_send" \notin RegisteredRpcs(impl, config)
        /\ \A id \in ExternalIDs :
               \E w \in {ensureWallet(impl, config, store, id, now, "none")} :
                   /\ w.err \in WalletDisabledCodes
                   /\ w.store = store
                   /\ w.events = <<>>
        /\ rpc.done =>
               /\ store = rpc.storeBefore
               /\ rpc.kind \in {"login", "link"} =>
                      /\ rpc.out.wallet = <<>>
                      /\ rpc.walletErr = NotRun
               /\ rpc.kind \in {"get_wallet", "sign"} =>
                      /\ ~rpc.ok
                      /\ rpc.err.code \in WalletDisabledCodes
                      /\ rpc.trace = <<>>

====
